---- MODULE Spec2Model ----
(***************************************************************************)
(* Split criteria of a classification decision tree (src/criteria.py).     *)
(*                                                                         *)
(* The module holds several specifications over one set of variables:      *)
(*   SpecTrick    the two-class trick and the Gini engine on a two-column  *)
(*                (superclass) contingency table;                          *)
(*   SpecHypercube  the nominal and the numeric solver of HypercubeCover   *)
(*                on the same two-class samples;                           *)
(*   SpecNumeric  the numeric scans, one loop iteration per step;          *)
(*   SpecChi      the numeric scan of LSChiSquare;                         *)
(*   SpecLS       the Max-Cut local search of the LS criteria;             *)
(*   SpecSelect   select_best_attribute_and_split of every criterion;      *)
(*   SpecLSSplit  _generate_best_split of the LS criteria on a table;      *)
(*   SpecTwoing   the generator Twoing._generate_twoing;                   *)
(*   SpecGroup    PCExt._group_values, applied to a table and then to the  *)
(*                table it returned;                                       *)
(*   SpecGW       _generate_best_split of the Goemans-Williamson criteria; *)
(*   SpecCI       the attribute ranking pass of the conditional inference  *)
(*                criteria.                                                *)
(* A specification leaves the variables of the others at their idle value. *)
(*                                                                         *)
(* Python floats are modelled as exact rationals [num, den] in lowest      *)
(* terms; float('-inf') and float('+inf') are NegInf and PosInf.           *)
(***************************************************************************)
EXTENDS Integers, Sequences, FiniteSets, TLC

VARIABLES
    pc,                  \* position of the running operation
    contingency_table,   \* tree_node.contingency_tables[attrib].contingency_table
    result,              \* what the operation returned
    criterion,           \* the criterion class whose operation runs
    values_and_classes,  \* the sorted list handed to the numeric scan
    scan,                \* the local variables of the numeric scan or of the generator
    index,               \* first_right_index, the loop variable of the numeric scan
    weights,             \* the edge weights of the values graph (Max-Cut)
    ls,                  \* the local variables of _switch_while_increase
    run,                 \* 1 in the first run of the local search, 2 in the re-run
    first_run,           \* what the first run of the local search returned
    tree_node,           \* the node handed to select_best_attribute_and_split
    select               \* the local variables of select_best_attribute_and_split

vars == <<pc, contingency_table, result, criterion, values_and_classes, scan, index, weights, ls, run, first_run, tree_node, select>>

numericVars == <<criterion, values_and_classes, scan, index>>
lsVars == <<weights, ls, run, first_run>>
selectVars == <<tree_node, select>>
nonTrickVars == <<numericVars, lsVars, selectVars>>
nonNumericVars == <<contingency_table, lsVars, selectVars>>
nonLSVars == <<contingency_table, values_and_classes, scan, index, selectVars>>
nonSelectVars == <<contingency_table, values_and_classes, scan, index, lsVars>>

(***************************************************************************)
(* Bounds of the model.                                                    *)
(***************************************************************************)
TrickNumValues == 3      \* rows (attribute values) of a drawn table
TrickMaxSamples == 5     \* most samples at the node of a drawn table
TrickMaxScale == 2       \* largest multiple of a row in a table of proportional rows
NumericMaxSamples == 4   \* most samples of a numeric scan (SpecNumeric)
NumericNumValues == 3    \* distinct attribute values of a numeric scan (SpecNumeric)
NumericNumClasses == 2   \* classes of a numeric scan (SpecNumeric)
ChiMaxSamples == 5       \* most samples of a numeric scan (SpecChi)
ChiNumValues == 3        \* distinct attribute values of a numeric scan (SpecChi)
ChiNumClasses == 2       \* classes of a numeric scan (SpecChi)
LSNumValues == 4         \* attribute values of a node of the local search (SpecLS)
LSMaxSamples == 4        \* most samples at a node of the local search (SpecLS)
LSNumClasses == 2        \* classes at a node of the local search (SpecLS)
SelectMaxAttributes == 2 \* most attributes of a node (SpecSelect)
SelectMaxValue == 1      \* largest criterion value of an attribute's split (SpecSelect)
GroupNumValues == 3      \* attribute values of a table handed to _group_values (SpecGroup)
GroupNumClasses == 2     \* classes of a table handed to _group_values (SpecGroup)
GroupMaxSamples == 4     \* most samples of a small table handed to _group_values
GroupNearBase == 273     \* smallest count in a table of nearly proportional rows
GroupNearSpread == 2     \* largest shift of a row in a table of nearly proportional rows
GWNumValues == 3
GWNumClasses == 2
GWMaxSamples == 6
LSSplitMaxSamples == 5
TwoingNumClasses == 4
TwoingMaxClassSamples == 2
PCExtNumValues == 3
PCExtNumClasses == 2
PCExtMaxSamples == 4
SliqNumValues == 3
SliqNumClasses == 2
SliqMaxSamples == 4
SliqMaxScale == 4
SliqMaxRowCount == 2
MaxDyadicBits == 10
LCANumValues == 3
LCANumClasses == 3
LCAMaxSamples == 3
CIMaxAttributes == 2
CIMaxValues == 21
CIMaxClasses == 10
CINumSamples == 42

(***************************************************************************)
(* Program constants.                                                      *)
(***************************************************************************)
NumSuperclasses == 2     \* np.zeros((contingency_table.shape[0], 2))
AllcloseRtolInverse == 100000     \* np.allclose: rtol = 1e-05 (the default)
AllcloseAtolInverse == 100000000  \* np.allclose: atol = 1e-08 (the default)
BIG_CONTINGENCY_TABLE_THRESHOLD == 200
InitialRcondExponent == -15     \* curr_rcond = 1e-15
RcondCeilingExponent == -6      \* if curr_rcond > 1e-6
NumpyDefaultRcondExponent == -15  \* np.linalg.pinv(a, rcond=1e-15)
MaxPinvRounds == 9       \* multiplications of 1e-15 by 10. until curr_rcond > 1e-6

\* Python's None, where the code stores it in place of an index or a value.
None == -1
NoResult == [op |-> "none"]
NoScan == [best_index |-> None]
NoSearch == [found_improvement |-> FALSE]
NoNode == [valid_nominal_attribute |-> <<>>]
NoSelect == [attrib_index |-> None]

(***************************************************************************)
(* Exact rational arithmetic standing for Python float arithmetic.         *)
(***************************************************************************)
Abs(x) == IF x < 0 THEN -x ELSE x

RECURSIVE GCD(_, _)
GCD(a, b) == IF b = 0 THEN a ELSE GCD(b, a % b)

\* Each operation evaluates its arguments once, binding them to x and y.
Rat(n, d) ==
    CHOOSE r \in {[num |-> (IF y < 0 THEN -1 ELSE 1) * (x \div GCD(Abs(x), Abs(y))),
                   den |-> (IF y < 0 THEN -1 ELSE 1) * (y \div GCD(Abs(x), Abs(y)))] : x \in {n}, y \in {d}} : TRUE

NegInf == [num |-> -1, den |-> 0]
PosInf == [num |-> 1, den |-> 0]
RInt(n) == [num |-> n, den |-> 1]
RAdd(a, b) == CHOOSE r \in {Rat(x.num * y.den + y.num * x.den, x.den * y.den) : x \in {a}, y \in {b}} : TRUE
RSub(a, b) == CHOOSE r \in {Rat(x.num * y.den - y.num * x.den, x.den * y.den) : x \in {a}, y \in {b}} : TRUE
RMul(a, b) == CHOOSE r \in {Rat(x.num * y.num, x.den * y.den) : x \in {a}, y \in {b}} : TRUE
RDiv(a, b) == CHOOSE r \in {Rat(x.num * y.den, x.den * y.num) : x \in {a}, y \in {b}} : TRUE
RAbs(a) == [num |-> Abs(a.num), den |-> a.den]
RLt(a, b) == a.num * b.den < b.num * a.den
RLe(a, b) == a.num * b.den <= b.num * a.den

RECURSIVE SumOver(_, _)
SumOver(S, f) ==
    IF S = {} THEN 0
    ELSE LET x == CHOOSE y \in S : TRUE IN f[x] + SumOver(S \ {x}, f)

RECURSIVE RSumOver(_, _)
RSumOver(S, f) ==
    IF S = {} THEN RInt(0)
    ELSE LET x == CHOOSE y \in S : TRUE IN RAdd(f[x], RSumOver(S \ {x}, f))

(***************************************************************************)
(* Contingency tables: counts[value][class], indices from 0.               *)
(***************************************************************************)
TrickValues == 0 .. (TrickNumValues - 1)
Superclasses == 0 .. (NumSuperclasses - 1)

RowSum(table, value) == SumOver(DOMAIN table[value], table[value])
ValuesNumSamples(table) == [value \in DOMAIN table |-> RowSum(table, value)]
ClassIndexNumSamples(table, classes) ==
    [c \in classes |-> SumOver(DOMAIN table, [value \in DOMAIN table |-> table[value][c]])]
NumSamples(table) == SumOver(DOMAIN table, ValuesNumSamples(table))

\* Twoing._get_values_seen
_get_values_seen(values_num_samples) ==
    {value \in DOMAIN values_num_samples : values_num_samples[value] > 0}

(***************************************************************************)
(* Gini engine.                                                            *)
(***************************************************************************)
\* The Gini index with the square left out: 1 - sum of n_c/n.
_calculate_gini_index_unsquared(side_num, class_num_side) ==
    RSub(RInt(1),
         RSumOver({c \in DOMAIN class_num_side : class_num_side[c] > 0},
                  [c \in DOMAIN class_num_side |-> Rat(class_num_side[c], side_num)]))

\* Twoing._calculate_gini_index: 1 - sum over the classes present of (n_c/n)^2
_calculate_gini_index(side_num, class_num_side) ==
    RSub(RInt(1),
         RSumOver({c \in DOMAIN class_num_side : class_num_side[c] > 0},
                  [c \in DOMAIN class_num_side |->
                      RMul(Rat(class_num_side[c], side_num),
                           Rat(class_num_side[c], side_num))]))

\* Twoing._calculate_children_gini_index
_calculate_children_gini_index(left_num, class_num_left, right_num, class_num_right) ==
    RDiv(RAdd(RMul(RInt(left_num), _calculate_gini_index(left_num, class_num_left)),
              RMul(RInt(right_num), _calculate_gini_index(right_num, class_num_right))),
         RInt(left_num + right_num))

(***************************************************************************)
(* The two-class trick (Twoing._two_class_trick).                          *)
(***************************************************************************)
\* _get_non_empty_class_indices: the first two classes with samples, or None
_get_non_empty_class_indices(class_index_num_samples) ==
    LET non_empty == {c \in DOMAIN class_index_num_samples : class_index_num_samples[c] > 0}
        Min(S) == CHOOSE x \in S : \A y \in S : x <= y
        first == IF non_empty = {} THEN None ELSE Min(non_empty)
        second == IF Cardinality(non_empty) < 2 THEN None ELSE Min(non_empty \ {first})
    IN  <<first, second>>

\* The lists value_number_ratio.sort(key=lambda tup: tup[2]) can produce: every
\* order of values_seen with non-decreasing ratio (the sort is stable over the
\* iteration order of the set values_seen, which the language leaves open).
RECURSIVE SortedByKey(_, _)
SortedByKey(tuples, key) ==
    IF tuples = {} THEN {<<>>}
    ELSE UNION {{<<t>> \o s : s \in SortedByKey(tuples \ {t}, key)} :
                    t \in {u \in tuples : \A w \in tuples : RLe(key[u], key[w])}}

KeyCount(tuples) == [tup \in tuples |-> RInt(tup.number)]
KeyRatio(tuples) == [tup \in tuples |-> tup.ratio]

ValueNumberRatioTuples(values_seen, values_num_samples, table, second_class_index) ==
    {[value |-> curr_value,
      number |-> table[curr_value][second_class_index],
      ratio |-> Rat(table[curr_value][second_class_index], values_num_samples[curr_value])]
        : curr_value \in values_seen}

\* Sorting on the count of the second class (tup[1]) instead of its ratio (tup[2]).
_calculate_value_class_ratio_by_count(values_seen, values_num_samples, table, second_class_index) ==
    LET tuples == ValueNumberRatioTuples(values_seen, values_num_samples, table, second_class_index)
    IN  SortedByKey(tuples, KeyCount(tuples))

\* _calculate_value_class_ratio
_calculate_value_class_ratio(values_seen, values_num_samples, table, second_class_index) ==
    LET tuples == ValueNumberRatioTuples(values_seen, values_num_samples, table, second_class_index)
    IN  SortedByKey(tuples, KeyRatio(tuples))

\* The nested _calculate_children_gini_index of Twoing._two_class_trick
_trick_children_gini_index(num_left_first, num_left_second, num_right_first, num_right_second, num_left_samples, num_right_samples) ==
    LET SideGini(first, second, num) ==
            IF num # 0
            THEN RSub(RSub(RInt(1), RMul(Rat(first, num), Rat(first, num))),
                      RMul(Rat(second, num), Rat(second, num)))
            ELSE RInt(1)
    IN  RDiv(RAdd(RMul(RInt(num_left_samples),
                       SideGini(num_left_first, num_left_second, num_left_samples)),
                  RMul(RInt(num_right_samples),
                       SideGini(num_right_first, num_right_second, num_right_samples))),
             RInt(num_left_samples + num_right_samples))

\* One iteration of the sweep over value_number_ratio[:-1]; i is the 1-based
\* position of last_left_index.
TrickSweepStep(st, tup, i, values_num_samples, original_gini) ==
    LET num_samples_last_left_value == values_num_samples[tup.value]
        last_left_num_first == num_samples_last_left_value - tup.number
        moved == [st EXCEPT
                    !.num_left_samples = @ + num_samples_last_left_value,
                    !.num_left_first = @ + last_left_num_first,
                    !.num_left_second = @ + tup.number,
                    !.num_right_samples = @ - num_samples_last_left_value,
                    !.num_right_first = @ - last_left_num_first,
                    !.num_right_second = @ - tup.number]
        curr_children_gini_index ==
            _trick_children_gini_index(moved.num_left_first, moved.num_left_second,
                                       moved.num_right_first, moved.num_right_second,
                                       moved.num_left_samples, moved.num_right_samples)
        curr_gini_gain == RSub(original_gini, curr_children_gini_index)
    IN  IF RLt(moved.best_split_total_gini_gain, curr_gini_gain)
        THEN [moved EXCEPT !.best_split_total_gini_gain = curr_gini_gain,
                           !.best_last_left_index = i - 1]
        ELSE moved

RECURSIVE TrickSweep(_, _, _, _, _)
TrickSweep(st, value_number_ratio, i, values_num_samples, original_gini) ==
    IF i > Len(value_number_ratio) - 1 THEN st
    ELSE TrickSweep(TrickSweepStep(st, value_number_ratio[i], i, values_num_samples,
                                   original_gini),
                    value_number_ratio, i + 1, values_num_samples, original_gini)

\* Twoing._two_class_trick, for one outcome value_number_ratio of the sort
Twoing_two_class_trick(original_gini, class_index_num_samples, values_seen, values_num_samples, value_number_ratio, num_total_valid_samples) ==
    LET non_empty == _get_non_empty_class_indices(class_index_num_samples)
        start == [num_left_first |-> 0, num_left_second |-> 0, num_left_samples |-> 0,
                  num_right_first |-> class_index_num_samples[non_empty[1]],
                  num_right_second |-> class_index_num_samples[non_empty[2]],
                  num_right_samples |-> num_total_valid_samples,
                  best_split_total_gini_gain |-> NegInf,
                  best_last_left_index |-> 0]
        end == TrickSweep(start, value_number_ratio, 1, values_num_samples, original_gini)
        set_left_values ==
            {value_number_ratio[k].value : k \in 1 .. (end.best_last_left_index + 1)}
    IN  IF non_empty[1] = None \/ non_empty[2] = None
        THEN [gain |-> NegInf, left |-> {0}, right |-> {}]
        ELSE [gain |-> end.best_split_total_gini_gain,
              left |-> set_left_values,
              right |-> values_seen \ set_left_values]

(***************************************************************************)
(* PCExt._calculate_split_gini_index                                       *)
(***************************************************************************)
\* PCExt._get_num_samples_per_side
_get_num_samples_per_side(values_num_samples, left_values, right_values) ==
    <<SumOver(left_values, values_num_samples), SumOver(right_values, values_num_samples)>>

\* The class counts of one value of the side only (the loop over values cut short).
_get_num_samples_per_class_in_first_value(table, values) ==
    table[CHOOSE value \in values : \A other \in values : value <= other]

\* PCExt._get_num_samples_per_class_in_values
_get_num_samples_per_class_in_values(table, values) ==
    [class_index \in DOMAIN table[CHOOSE value \in DOMAIN table : TRUE] |->
        SumOver(values, [value \in DOMAIN table |-> table[value][class_index]])]

\* PCExt._calculate_node_gini_index
_calculate_node_gini_index(num_split_samples, num_samples_per_class_in_split) ==
    IF num_split_samples = 0 THEN RInt(1)
    ELSE RSub(RInt(1),
              RSumOver(DOMAIN num_samples_per_class_in_split,
                       [c \in DOMAIN num_samples_per_class_in_split |->
                           RMul(Rat(num_samples_per_class_in_split[c], num_split_samples),
                                Rat(num_samples_per_class_in_split[c], num_split_samples))]))

\* PCExt._get_gini_value
_get_gini_value(num_samples_per_class_left, num_samples_per_class_right, num_left_samples, num_right_samples) ==
    LET num_samples == num_left_samples + num_right_samples
        left_gini == _calculate_node_gini_index(num_left_samples, num_samples_per_class_left)
        right_gini == _calculate_node_gini_index(num_right_samples, num_samples_per_class_right)
    IN  RAdd(RMul(Rat(num_left_samples, num_samples), left_gini),
             RMul(Rat(num_right_samples, num_samples), right_gini))

\* PCExt._calculate_split_gini_index
_calculate_split_gini_index(table, values_num_samples, left_values, right_values) ==
    LET sides == _get_num_samples_per_side(values_num_samples, left_values, right_values)
    IN  _get_gini_value(_get_num_samples_per_class_in_values(table, left_values),
                        _get_num_samples_per_class_in_values(table, right_values),
                        sides[1], sides[2])

(***************************************************************************)
(* Numeric scans. sorted_values_and_classes is a sequence of <<value,       *)
(* class>> pairs (Python index k is position k + 1); the loop locals are    *)
(* one record. best_index is a history field: the first_right_index at     *)
(* which the best cut was last replaced.                                   *)
(***************************************************************************)
ClassCount(samples, from, c) == Cardinality({k \in from .. Len(samples) : samples[k][2] = c})

\* The statements before the loop of the scans that start from the first sample.
ScanStart(sorted_values_and_classes, num_classes, worst) ==
    [last_left_value |-> sorted_values_and_classes[1][1],
     num_left_samples |-> 1,
     num_right_samples |-> Len(sorted_values_and_classes) - 1,
     class_num_left |-> [c \in 0 .. (num_classes - 1) |->
                            IF c = sorted_values_and_classes[1][2] THEN 1 ELSE 0],
     class_num_right |-> [c \in 0 .. (num_classes - 1) |->
                            ClassCount(sorted_values_and_classes, 2, c)],
     best |-> worst,
     best_last_left_value |-> None,
     best_first_right_value |-> None,
     best_index |-> None]

\* The move of a sample that leaves class_num_right as it was.
ScanMoveSampleLeftOnly(st, sorted_values_and_classes, first_right_index) ==
    LET first_right_class == sorted_values_and_classes[first_right_index + 1][2]
    IN  [st EXCEPT !.num_left_samples = @ + 1,
                   !.num_right_samples = @ - 1,
                   !.class_num_left[first_right_class] = @ + 1]

\* The statements of one loop iteration that follow the evaluation of the cut:
\* the sample at first_right_index (Python index; position + 1 here) moves left.
ScanMoveSample(st, sorted_values_and_classes, first_right_index) ==
    LET first_right_class == sorted_values_and_classes[first_right_index + 1][2]
    IN  [st EXCEPT !.num_left_samples = @ + 1,
                   !.num_right_samples = @ - 1,
                   !.class_num_left[first_right_class] = @ + 1,
                   !.class_num_right[first_right_class] = @ - 1]

\* The loop iteration with last_left_value updated only when the best is replaced.
ScanLoopBodyStaleLastLeft(st, sorted_values_and_classes, first_right_index, cut_value, is_better) ==
    LET first_right_value == sorted_values_and_classes[first_right_index + 1][1]
        evaluated ==
            IF first_right_value # st.last_left_value /\ is_better
            THEN [st EXCEPT !.best = cut_value,
                            !.best_last_left_value = st.last_left_value,
                            !.best_first_right_value = first_right_value,
                            !.best_index = first_right_index,
                            !.last_left_value = first_right_value]
            ELSE st
    IN  ScanMoveSample(evaluated, sorted_values_and_classes, first_right_index)

\* One loop iteration of a scan whose cut value at the current position is
\* cut_value and replaces the best when is_better.
ScanLoopBody(st, sorted_values_and_classes, first_right_index, cut_value, is_better) ==
    LET first_right_value == sorted_values_and_classes[first_right_index + 1][1]
        evaluated ==
            IF first_right_value # st.last_left_value
            THEN [(IF is_better
                   THEN [st EXCEPT !.best = cut_value,
                                   !.best_last_left_value = st.last_left_value,
                                   !.best_first_right_value = first_right_value,
                                   !.best_index = first_right_index]
                   ELSE st)
                  EXCEPT !.last_left_value = first_right_value]
            ELSE st
    IN  ScanMoveSample(evaluated, sorted_values_and_classes, first_right_index)

\* HypercubeCover._solve_for_numeric: one iteration of the loop
HypercubeCover_solve_for_numeric_body(st, sorted_values_and_classes, first_right_index) ==
    LET gini_value == _calculate_children_gini_index(st.num_left_samples, st.class_num_left,
                                                     st.num_right_samples, st.class_num_right)
    IN  ScanLoopBody(st, sorted_values_and_classes, first_right_index, gini_value,
                     RLt(gini_value, st.best))

RECURSIVE HypercubeCover_solve_for_numeric_loop(_, _, _)
HypercubeCover_solve_for_numeric_loop(st, sorted_values_and_classes, first_right_index) ==
    IF first_right_index >= Len(sorted_values_and_classes) THEN st
    ELSE HypercubeCover_solve_for_numeric_loop(
             HypercubeCover_solve_for_numeric_body(st, sorted_values_and_classes, first_right_index),
             sorted_values_and_classes, first_right_index + 1)

\* HypercubeCover._solve_for_numeric
HypercubeCover_solve_for_numeric(sorted_values_and_classes, num_classes) ==
    LET end == HypercubeCover_solve_for_numeric_loop(
                   ScanStart(sorted_values_and_classes, num_classes, PosInf),
                   sorted_values_and_classes, 1)
    IN  [best_gini |-> end.best,
         last_left_value |-> end.best_last_left_value,
         first_right_value |-> end.best_first_right_value]

\* Twoing._get_twoing_value
_get_twoing_value(class_num_left, class_num_right, num_left_samples, num_right_samples) ==
    LET sum_dif ==
            RSumOver({c \in DOMAIN class_num_left : class_num_left[c] + class_num_right[c] # 0},
                     [c \in DOMAIN class_num_left |->
                         RAbs(RSub(Rat(class_num_left[c], num_left_samples),
                                   Rat(class_num_right[c], num_right_samples)))])
        num_total_samples == num_left_samples + num_right_samples
        frequency_left == Rat(num_left_samples, num_total_samples)
        frequency_right == Rat(num_right_samples, num_total_samples)
    IN  RMul(RDiv(RMul(frequency_left, frequency_right), RInt(4)), RMul(sum_dif, sum_dif))

\* Twoing._twoing_for_numeric: one iteration of the loop
_twoing_for_numeric_body(st, sorted_values_and_classes, first_right_index) ==
    LET twoing_value == _get_twoing_value(st.class_num_left, st.class_num_right,
                                          st.num_left_samples, st.num_right_samples)
    IN  ScanLoopBody(st, sorted_values_and_classes, first_right_index, twoing_value,
                     RLt(st.best, twoing_value))

\* PCExt._gini_for_numeric: one iteration of the loop
_gini_for_numeric_body(st, sorted_values_and_classes, first_right_index) ==
    LET gini_value == _get_gini_value(st.class_num_left, st.class_num_right,
                                      st.num_left_samples, st.num_right_samples)
    IN  ScanLoopBody(st, sorted_values_and_classes, first_right_index, gini_value,
                     RLt(gini_value, st.best))

\* LargestClassAlone._solve_for_numeric: one iteration of the loop (the text of
\* HypercubeCover._solve_for_numeric)
LargestClassAlone_solve_for_numeric_body(st, sorted_values_and_classes, first_right_index) ==
    LET gini_value == _calculate_children_gini_index(st.num_left_samples, st.class_num_left,
                                                     st.num_right_samples, st.class_num_right)
    IN  ScanLoopBody(st, sorted_values_and_classes, first_right_index, gini_value,
                     RLt(gini_value, st.best))

\* SliqExt._solve_for_numeric: one iteration of the loop (the text of
\* PCExt._gini_for_numeric)
SliqExt_solve_for_numeric_body(st, sorted_values_and_classes, first_right_index) ==
    LET gini_value == _get_gini_value(st.class_num_left, st.class_num_right,
                                      st.num_left_samples, st.num_right_samples)
    IN  ScanLoopBody(st, sorted_values_and_classes, first_right_index, gini_value,
                     RLt(gini_value, st.best))

\* The statements before the loop with curr_cut_value started at the number
\* of samples on the right.
LSSquaredGiniScanStartAllPairs(sorted_values_and_classes, num_classes) ==
    LET st == ScanStart(sorted_values_and_classes, num_classes, NegInf)
    IN  [curr_cut_value |-> st.num_right_samples] @@ st

\* LSSquaredGini._best_cut_for_numeric, the statements before the loop. The
\* fields last_left_value, best, best_last_left_value and best_first_right_value
\* stand for last_left_new_value, best_cut_value, best_last_left_new_value and
\* best_first_right_new_value.
LSSquaredGiniScanStart(sorted_values_and_classes, num_classes) ==
    LET st == ScanStart(sorted_values_and_classes, num_classes, NegInf)
        last_left_class == sorted_values_and_classes[1][2]
    IN  [curr_cut_value |-> st.num_right_samples - st.class_num_right[last_left_class]] @@ st

\* LSSquaredGini._best_cut_for_numeric: one iteration of the loop
LSSquaredGini_best_cut_for_numeric_body(st, sorted_values_and_classes, first_right_index) ==
    LET first_right_new_value == sorted_values_and_classes[first_right_index + 1][1]
        first_right_class == sorted_values_and_classes[first_right_index + 1][2]
        checked ==
            IF /\ first_right_new_value # st.last_left_value
               /\ RLt(st.best, RInt(st.curr_cut_value))
            THEN [st EXCEPT !.best = RInt(st.curr_cut_value),
                            !.best_last_left_value = st.last_left_value,
                            !.best_first_right_value = first_right_new_value,
                            !.best_index = first_right_index]
            ELSE st
        lowered == [checked EXCEPT !.curr_cut_value =
                        @ - (checked.num_left_samples - checked.class_num_left[first_right_class])]
        moved == ScanMoveSample(lowered, sorted_values_and_classes, first_right_index)
    IN  [moved EXCEPT !.curr_cut_value =
                          @ + (moved.num_right_samples - moved.class_num_right[first_right_class]),
                      !.last_left_value = first_right_new_value]

\* LSChiSquare._best_cut_for_numeric: curr_cut_value of one iteration
ChiSquareCutValue(st, class_index_num_samples, num_samples) ==
    RSumOver({class_index \in DOMAIN class_index_num_samples : class_index_num_samples[class_index] # 0},
             [class_index \in DOMAIN class_index_num_samples |->
                 LET expected_value_left_class ==
                         Rat(st.num_left_samples * class_index_num_samples[class_index], num_samples)
                     diff_left == RSub(RInt(st.class_num_left[class_index]), expected_value_left_class)
                     expected_value_right_class ==
                         Rat(st.num_right_samples * class_index_num_samples[class_index], num_samples)
                     diff_right == RSub(RInt(st.class_num_right[class_index]), expected_value_right_class)
                 IN  RAdd(RMul(diff_left, RDiv(diff_left, expected_value_left_class)),
                          RMul(diff_right, RDiv(diff_right, expected_value_right_class)))])

\* LSChiSquare._best_cut_for_numeric: one iteration of the loop
LSChiSquare_best_cut_for_numeric_body(st, sorted_values_and_classes, first_right_index, class_index_num_samples) ==
    LET first_right_new_value == sorted_values_and_classes[first_right_index + 1][1]
        curr_cut_value == ChiSquareCutValue(st, class_index_num_samples, Len(sorted_values_and_classes))
        checked ==
            IF /\ first_right_new_value # st.last_left_value
               /\ RLt(st.best, curr_cut_value)
            THEN [st EXCEPT !.best = curr_cut_value,
                            !.best_last_left_value = st.last_left_value,
                            !.best_first_right_value = first_right_new_value,
                            !.best_index = first_right_index,
                            !.last_left_value = first_right_new_value]
            ELSE st
    IN  ScanMoveSample(checked, sorted_values_and_classes, first_right_index)

(***************************************************************************)
(* HypercubeCover._two_class_trick                                         *)
(***************************************************************************)
\* The sweep step with class_num_right left as it was.
HypercubeCoverSweepStepKeepRight(st, tup, last_left_index, table, values_num_samples) ==
    LET num_samples_last_left_value == values_num_samples[tup.value]
        moved == [st EXCEPT
                    !.num_left_samples = @ + num_samples_last_left_value,
                    !.num_right_samples = @ - num_samples_last_left_value,
                    !.class_num_left = [c \in DOMAIN @ |-> @[c] + table[tup.value][c]]]
        curr_children_gini_index ==
            _calculate_children_gini_index(moved.num_left_samples, moved.class_num_left,
                                           moved.num_right_samples, moved.class_num_right)
    IN  IF RLt(curr_children_gini_index, moved.best_split_children_gini_gain)
        THEN [moved EXCEPT !.best_split_children_gini_gain = curr_children_gini_index,
                           !.best_last_left_index = last_left_index]
        ELSE moved

\* One iteration of the sweep of HypercubeCover._two_class_trick
HypercubeCoverSweepStep(st, tup, last_left_index, table, values_num_samples) ==
    LET num_samples_last_left_value == values_num_samples[tup.value]
        moved == [st EXCEPT
                    !.num_left_samples = @ + num_samples_last_left_value,
                    !.num_right_samples = @ - num_samples_last_left_value,
                    !.class_num_left = [c \in DOMAIN @ |-> @[c] + table[tup.value][c]],
                    !.class_num_right = [c \in DOMAIN @ |-> @[c] - table[tup.value][c]]]
        curr_children_gini_index ==
            _calculate_children_gini_index(moved.num_left_samples, moved.class_num_left,
                                           moved.num_right_samples, moved.class_num_right)
    IN  IF RLt(curr_children_gini_index, moved.best_split_children_gini_gain)
        THEN [moved EXCEPT !.best_split_children_gini_gain = curr_children_gini_index,
                           !.best_last_left_index = last_left_index]
        ELSE moved

RECURSIVE HypercubeCoverSweep(_, _, _, _, _)
HypercubeCoverSweep(st, value_class_ratio, i, table, values_num_samples) ==
    IF i > Len(value_class_ratio) - 1 THEN st
    ELSE HypercubeCoverSweep(
             HypercubeCoverSweepStep(st, value_class_ratio[i], i - 1, table, values_num_samples),
             value_class_ratio, i + 1, table, values_num_samples)

\* HypercubeCover._two_class_trick, for one outcome value_class_ratio of the sort
HypercubeCover_two_class_trick(class_index_num_samples, superclass_index_num_samples, values_seen, table, values_num_samples, value_class_ratio, num_total_valid_samples) ==
    LET non_empty == _get_non_empty_class_indices(superclass_index_num_samples)
        start == [num_right_samples |-> num_total_valid_samples,
                  class_num_right |-> class_index_num_samples,
                  num_left_samples |-> 0,
                  class_num_left |-> [c \in DOMAIN class_index_num_samples |-> 0],
                  best_split_children_gini_gain |-> PosInf,
                  best_last_left_index |-> 0]
        end == HypercubeCoverSweep(start, value_class_ratio, 1, table, values_num_samples)
        set_left_values ==
            {value_class_ratio[k].value : k \in 1 .. (end.best_last_left_index + 1)}
    IN  IF non_empty[1] = None \/ non_empty[2] = None
        THEN [gini |-> PosInf, left |-> {0}, right |-> {}]
        ELSE [gini |-> end.best_split_children_gini_gain,
              left |-> set_left_values,
              right |-> values_seen \ set_left_values]

(***************************************************************************)
(* SpecTrick: a two-column (superclass) contingency table is drawn and one *)
(* of the solvers is applied to it.                                        *)
(***************************************************************************)
\* The end-to-end example table [[10, 0], [0, 10]] of the specification.
PerfectSeparationTable == [value \in 0 .. 1 |-> [c \in Superclasses |-> IF c = value THEN 10 ELSE 0]]

\* The tables over values x classes that hold at most n samples.
RECURSIVE TablesUpTo(_, _, _)
TablesUpTo(n, values, classes) ==
    IF n = 0 THEN {[value \in values |-> [c \in classes |-> 0]]}
    ELSE LET prev == TablesUpTo(n - 1, values, classes)
         IN  prev \cup {[t EXCEPT ![value][c] = @ + 1] : t \in prev, value \in values, c \in classes}

\* Tables whose rows are multiples of one class distribution.
ProportionalTables ==
    {[value \in TrickValues |-> [c \in Superclasses |-> scale[value] * row[c]]] :
        scale \in [TrickValues -> 1 .. TrickMaxScale], row \in [Superclasses -> 0 .. TrickMaxScale]}

SmallTables == {t \in TablesUpTo(TrickMaxSamples, TrickValues, Superclasses) : NumSamples(t) > 0}

DrawnTables == SmallTables \cup {t \in ProportionalTables : NumSamples(t) > 0} \cup {PerfectSeparationTable}

\* The samples of a table as the sorted list of (value, class) pairs that
\* _get_numeric_values_seen and values_and_classes.sort() build, the index of a
\* value standing for its numeric value.
RECURSIVE Repeat(_, _)
Repeat(x, n) == IF n = 0 THEN <<>> ELSE <<x>> \o Repeat(x, n - 1)

RECURSIVE SortedSamplesFrom(_, _)
SortedSamplesFrom(table, cell) ==
    IF cell = Cardinality(DOMAIN table) * NumSuperclasses THEN <<>>
    ELSE LET value == cell \div NumSuperclasses
             class == cell % NumSuperclasses
         IN  Repeat(<<value, class>>, table[value][class]) \o SortedSamplesFrom(table, cell + 1)

Bipartitions(S) == {L \in SUBSET S : L # {} /\ L # S}

TrickIdle == contingency_table = <<>>

NumericIdle ==
    /\ criterion = "none"
    /\ values_and_classes = <<>>
    /\ scan = NoScan
    /\ index = 0

LSIdle ==
    /\ weights = <<>>
    /\ ls = NoSearch
    /\ run = 0
    /\ first_run = NoResult

SelectIdle ==
    /\ tree_node = NoNode
    /\ select = NoSelect

\* Twoing.select_best_attribute_and_split, lines 92-102: the arguments of the
\* trick are derived from the superclass table, and the trick is run.
TwoClassTrick ==
    /\ pc = "input"
    /\ LET values_num_samples == ValuesNumSamples(contingency_table)
           superclass_index_num_samples == ClassIndexNumSamples(contingency_table, Superclasses)
           num_total_valid_samples == NumSamples(contingency_table)
           values_seen == _get_values_seen(values_num_samples)
           original_gini == _calculate_gini_index(num_total_valid_samples, superclass_index_num_samples)
           non_empty == _get_non_empty_class_indices(superclass_index_num_samples)
           orders == IF non_empty[2] = None THEN {<<>>}
                     ELSE _calculate_value_class_ratio(values_seen, values_num_samples, contingency_table, non_empty[2])
       IN  \E value_number_ratio \in orders :
               result' = [op |-> "two_class_trick", original_gini |-> original_gini] @@
                         Twoing_two_class_trick(original_gini, superclass_index_num_samples, values_seen, values_num_samples, value_number_ratio, num_total_valid_samples)
    /\ pc' = "done"
    /\ UNCHANGED <<contingency_table, nonTrickVars>>

\* HypercubeCover.select_best_attribute_and_split, nominal branch (lines
\* 3885-3910) on two-class data: the superclass table is the table itself.
HypercubeCoverNominal ==
    /\ pc = "input"
    /\ LET values_num_samples == ValuesNumSamples(contingency_table)
           class_index_num_samples == ClassIndexNumSamples(contingency_table, Superclasses)
           values_seen == _get_values_seen(values_num_samples)
           non_empty == _get_non_empty_class_indices(class_index_num_samples)
           orders == IF non_empty[2] = None THEN {<<>>}
                     ELSE _calculate_value_class_ratio(values_seen, values_num_samples, contingency_table, non_empty[2])
       IN  \E value_class_ratio \in orders :
               result' = [op |-> "hypercube_cover",
                          nominal |-> HypercubeCover_two_class_trick(class_index_num_samples, class_index_num_samples, values_seen, contingency_table, values_num_samples, value_class_ratio, NumSamples(contingency_table))]
    /\ pc' = "nominal_done"
    /\ UNCHANGED <<contingency_table, nonTrickVars>>

\* HypercubeCover.select_best_attribute_and_split, numeric branch (lines
\* 3920-3929), on the same samples.
HypercubeCoverNumeric ==
    /\ pc = "nominal_done"
    /\ result' = [numeric |-> HypercubeCover_solve_for_numeric(SortedSamplesFrom(contingency_table, 0), NumSuperclasses)] @@ result
    /\ pc' = "done"
    /\ UNCHANGED <<contingency_table, nonTrickVars>>

\* The weighted children Gini of one bipartition of the non-empty values, as
\* PCExt._calculate_split_gini_index and Twoing._calculate_children_gini_index
\* compute it, next to the Gini of the node.
SplitGiniIndex ==
    /\ pc = "input"
    /\ LET values_num_samples == ValuesNumSamples(contingency_table)
           values_seen == _get_values_seen(values_num_samples)
       IN  \E left_values \in Bipartitions(values_seen) :
               LET right_values == values_seen \ left_values
                   sides == _get_num_samples_per_side(values_num_samples, left_values, right_values)
               IN  result' = [op |-> "split_gini",
                              left |-> left_values,
                              right |-> right_values,
                              split_gini_index |-> _calculate_split_gini_index(contingency_table, values_num_samples, left_values, right_values),
                              children_gini_index |-> _calculate_children_gini_index(sides[1], _get_num_samples_per_class_in_values(contingency_table, left_values), sides[2], _get_num_samples_per_class_in_values(contingency_table, right_values)),
                              node_gini_index |-> _calculate_gini_index(NumSamples(contingency_table), ClassIndexNumSamples(contingency_table, Superclasses))]
    /\ pc' = "done"
    /\ UNCHANGED <<contingency_table, nonTrickVars>>

InitTrick ==
    /\ pc = "input"
    /\ contingency_table \in DrawnTables
    /\ result = NoResult
    /\ NumericIdle
    /\ LSIdle
    /\ SelectIdle

NextTrick ==
    \/ TwoClassTrick
    \/ SplitGiniIndex

\* SpecHypercube: the two solvers of HypercubeCover on the same small node.
InitHypercube ==
    /\ pc = "input"
    /\ contingency_table \in SmallTables
    /\ result = NoResult
    /\ NumericIdle
    /\ LSIdle
    /\ SelectIdle

NextHypercube ==
    \/ HypercubeCoverNominal
    \/ HypercubeCoverNumeric

SpecTrick == InitTrick /\ [][NextTrick]_vars

SpecHypercube == InitHypercube /\ [][NextHypercube]_vars

(***************************************************************************)
(* SpecNumeric and SpecChi: a sorted list of (value, class) pairs is drawn  *)
(* and the numeric scan of one criterion runs on it, one loop iteration    *)
(* per step.                                                               *)
(***************************************************************************)
NumericCriteria ==
    {"Twoing", "LSSquaredGini", "PCExt", "HypercubeCover", "LargestClassAlone", "SliqExt"}

\* The non-decreasing sequences of length n over the cells, a cell being the
\* rank of a (value, class) pair in the order of Python tuples.
RECURSIVE SortedCellSeqs(_, _)
SortedCellSeqs(n, cells) ==
    IF n = 0 THEN {<<>>}
    ELSE UNION {{Append(seq, cell) : cell \in {x \in cells : seq = <<>> \/ seq[Len(seq)] <= x}} :
                    seq \in SortedCellSeqs(n - 1, cells)}

\* What values_and_classes.sort() can leave: the sorted lists of 1 .. max_samples
\* pairs with values 1 .. num_values and classes 0 .. num_classes - 1.
SortedInputs(max_samples, num_values, num_classes) ==
    {[k \in 1 .. Len(seq) |-> <<(seq[k] \div num_classes) + 1, seq[k] % num_classes>>] :
        seq \in UNION {SortedCellSeqs(n, 0 .. (num_values * num_classes - 1)) : n \in 1 .. max_samples}}

NumClassesOfScan == IF criterion = "LSChiSquare" THEN ChiNumClasses ELSE NumericNumClasses

\* The statements of the scan before its loop.
NumericStart ==
    /\ pc = "input"
    /\ criterion \in NumericCriteria \cup {"LSChiSquare"}
    /\ scan' = CASE criterion = "Twoing" ->
                        ScanStart(values_and_classes, NumClassesOfScan, NegInf)
                 [] criterion = "LSSquaredGini" ->
                        LSSquaredGiniScanStart(values_and_classes, NumClassesOfScan)
                 [] criterion = "LSChiSquare" ->
                        ScanStart(values_and_classes, NumClassesOfScan, NegInf)
                 [] OTHER ->
                        ScanStart(values_and_classes, NumClassesOfScan, PosInf)
    /\ index' = 1
    /\ pc' = "loop"
    /\ UNCHANGED <<nonNumericVars, result, criterion, values_and_classes>>

\* One iteration of the loop of the scan of the criterion called name.
NumericStepOf(name, next_scan) ==
    /\ pc = "loop"
    /\ criterion = name
    /\ index < Len(values_and_classes)
    /\ scan' = next_scan
    /\ index' = index + 1
    /\ UNCHANGED <<pc, nonNumericVars, result, criterion, values_and_classes>>

TwoingNumericStep ==
    NumericStepOf("Twoing", _twoing_for_numeric_body(scan, values_and_classes, index))

LSSquaredGiniNumericStep ==
    NumericStepOf("LSSquaredGini", LSSquaredGini_best_cut_for_numeric_body(scan, values_and_classes, index))

PCExtNumericStep ==
    NumericStepOf("PCExt", _gini_for_numeric_body(scan, values_and_classes, index))

HypercubeCoverNumericStep ==
    NumericStepOf("HypercubeCover", HypercubeCover_solve_for_numeric_body(scan, values_and_classes, index))

LargestClassAloneNumericStep ==
    NumericStepOf("LargestClassAlone", LargestClassAlone_solve_for_numeric_body(scan, values_and_classes, index))

SliqExtNumericStep ==
    NumericStepOf("SliqExt", SliqExt_solve_for_numeric_body(scan, values_and_classes, index))

\* class_index_num_samples is tree_node.class_index_num_samples, the class
\* counts of the samples of the node.
LSChiSquareNumericStep ==
    NumericStepOf("LSChiSquare",
                  LSChiSquare_best_cut_for_numeric_body(
                      scan, values_and_classes, index,
                      [c \in 0 .. (ChiNumClasses - 1) |-> ClassCount(values_and_classes, 1, c)]))

\* The return statement of the scan.
NumericReturn ==
    /\ pc = "loop"
    /\ index >= Len(values_and_classes)
    /\ result' = [op |-> criterion,
                  best |-> scan.best,
                  last_left_value |-> scan.best_last_left_value,
                  first_right_value |-> scan.best_first_right_value]
    /\ pc' = "done"
    /\ UNCHANGED <<numericVars, nonNumericVars>>

InitNumeric ==
    /\ pc = "input"
    /\ criterion \in NumericCriteria
    /\ values_and_classes \in SortedInputs(NumericMaxSamples, NumericNumValues, NumericNumClasses)
    /\ scan = NoScan
    /\ index = 0
    /\ result = NoResult
    /\ TrickIdle
    /\ LSIdle
    /\ SelectIdle

NextNumeric ==
    \/ NumericStart
    \/ TwoingNumericStep
    \/ LSSquaredGiniNumericStep
    \/ PCExtNumericStep
    \/ HypercubeCoverNumericStep
    \/ LargestClassAloneNumericStep
    \/ SliqExtNumericStep
    \/ NumericReturn

SpecNumeric == InitNumeric /\ [][NextNumeric]_vars

InitChi ==
    /\ pc = "input"
    /\ criterion = "LSChiSquare"
    /\ values_and_classes \in SortedInputs(ChiMaxSamples, ChiNumValues, ChiNumClasses)
    /\ scan = NoScan
    /\ index = 0
    /\ result = NoResult
    /\ TrickIdle
    /\ LSIdle
    /\ SelectIdle

NextChi ==
    \/ NumericStart
    \/ LSChiSquareNumericStep
    \/ NumericReturn

SpecChi == InitChi /\ [][NextChi]_vars

(***************************************************************************)
(* Max-Cut local search of LSSquaredGini and LSChiSquare. Cut values and   *)
(* weights are rationals; weights[i][j] is the weight of the edge between  *)
(* the values i and j.                                                     *)
(***************************************************************************)
EPSILON == [num |-> 1, den |-> 1000000]

\* LSSquaredGini._remove_empty_values
_remove_empty_values(table, values_num_samples) ==
    LET seen == {orig_value \in DOMAIN values_num_samples : values_num_samples[orig_value] > 0}
        new_to_orig_value_int ==
            [new_value \in 0 .. (Cardinality(seen) - 1) |->
                CHOOSE orig_value \in seen : Cardinality({u \in seen : u < orig_value}) = new_value]
    IN  [new_to_orig_value_int |-> new_to_orig_value_int,
         new_contingency_table |->
             [new_value \in DOMAIN new_to_orig_value_int |-> table[new_to_orig_value_int[new_value]]],
         new_value_num_seen |->
             [new_value \in DOMAIN new_to_orig_value_int |->
                 values_num_samples[new_to_orig_value_int[new_value]]]]

\* _init_values_weights with the samples of value_index_i in place of those
\* of value_index_j.
LSSquaredGini_init_values_weights_own_samples(new_contingency_table, new_values_num_seen) ==
    [value_index_i \in DOMAIN new_values_num_seen |->
        [value_index_j \in DOMAIN new_values_num_seen |->
            IF value_index_i = value_index_j THEN RInt(0)
            ELSE RInt(SumOver(DOMAIN new_contingency_table[value_index_i],
                              [class_index \in DOMAIN new_contingency_table[value_index_i] |->
                                  new_contingency_table[value_index_i][class_index]
                                  * (new_values_num_seen[value_index_i]
                                     - new_contingency_table[value_index_j][class_index])]))]]

\* LSSquaredGini._generate_best_split._init_values_weights
LSSquaredGini_init_values_weights(new_contingency_table, new_values_num_seen) ==
    [value_index_i \in DOMAIN new_values_num_seen |->
        [value_index_j \in DOMAIN new_values_num_seen |->
            IF value_index_i = value_index_j THEN RInt(0)
            ELSE RInt(SumOver(DOMAIN new_contingency_table[value_index_i],
                              [class_index \in DOMAIN new_contingency_table[value_index_i] |->
                                  new_contingency_table[value_index_i][class_index]
                                  * (new_values_num_seen[value_index_j]
                                     - new_contingency_table[value_index_j][class_index])]))]]

\* LSChiSquare._generate_best_split._init_values_weights: the weight of the
\* edge between value_index_i < value_index_j
ChiSquareEdgeWeight(new_contingency_table, new_values_num_seen, value_index_i, value_index_j) ==
    LET num_samples_both_values == new_values_num_seen[value_index_i] + new_values_num_seen[value_index_j]
        classes == DOMAIN new_contingency_table[value_index_i]
        Both(c) == new_contingency_table[value_index_i][c] + new_contingency_table[value_index_j][c]
        Expected(value, c) == Rat(new_values_num_seen[value] * Both(c), num_samples_both_values)
        Diff(value, c) == RSub(RInt(new_contingency_table[value][c]), Expected(value, c))
        sum == RSumOver({c \in classes : Both(c) # 0},
                        [c \in classes |->
                            RAdd(RMul(Diff(value_index_i, c),
                                      RDiv(Diff(value_index_i, c), Expected(value_index_i, c))),
                                 RMul(Diff(value_index_j, c),
                                      RDiv(Diff(value_index_j, c), Expected(value_index_j, c))))])
        num_values == Cardinality(DOMAIN new_values_num_seen)
    IN  IF num_values > 2 THEN RDiv(sum, RInt(num_values - 1)) ELSE sum

\* LSChiSquare._generate_best_split._init_values_weights: the weight computed
\* for value_index_i < value_index_j is stored at [i][j] and at [j][i]
LSChiSquare_init_values_weights(new_contingency_table, new_values_num_seen) ==
    LET edge == [value_index_i \in DOMAIN new_values_num_seen |->
                    [value_index_j \in {v \in DOMAIN new_values_num_seen : v > value_index_i} |->
                        ChiSquareEdgeWeight(new_contingency_table, new_values_num_seen, value_index_i, value_index_j)]]
    IN  [value_index_i \in DOMAIN new_values_num_seen |->
            [value_index_j \in DOMAIN new_values_num_seen |->
                IF value_index_i = value_index_j THEN RInt(0)
                ELSE IF value_index_i < value_index_j
                THEN edge[value_index_i][value_index_j]
                ELSE edge[value_index_j][value_index_i]]]

\* The sum of weights[value][other] over the values of a set.
WeightsTo(weights_, values, other) ==
    RSumOver(values, [value \in DOMAIN weights_ |-> weights_[value][other]])

\* The body of the loop with the gain of the other side added to cut_val.
InitialPartitionStepOtherGain(part, value, weights_) ==
    LET gain_assigning_right == RSumOver(part.set_left_values, weights_[value])
        gain_assigning_left == RSumOver(part.set_right_values, weights_[value])
    IN  IF part.set_left_values = {}
        THEN [part EXCEPT !.set_left_values = @ \cup {value}]
        ELSE IF RLe(gain_assigning_left, gain_assigning_right)
        THEN [part EXCEPT !.set_right_values = @ \cup {value},
                          !.cut_val = RAdd(@, gain_assigning_left)]
        ELSE [part EXCEPT !.set_left_values = @ \cup {value},
                          !.cut_val = RAdd(@, gain_assigning_right)]

\* The body of the loop with `>` in place of `>=`.
InitialPartitionStepStrict(part, value, weights_) ==
    LET gain_assigning_right == RSumOver(part.set_left_values, weights_[value])
        gain_assigning_left == RSumOver(part.set_right_values, weights_[value])
    IN  IF part.set_left_values = {}
        THEN [part EXCEPT !.set_left_values = @ \cup {value}]
        ELSE IF RLt(gain_assigning_left, gain_assigning_right)
        THEN [part EXCEPT !.set_right_values = @ \cup {value},
                          !.cut_val = RAdd(@, gain_assigning_right)]
        ELSE [part EXCEPT !.set_left_values = @ \cup {value},
                          !.cut_val = RAdd(@, gain_assigning_left)]

\* _generate_initial_partition: the body of the loop for one value
InitialPartitionStep(part, value, weights_) ==
    LET gain_assigning_right == RSumOver(part.set_left_values, weights_[value])
        gain_assigning_left == RSumOver(part.set_right_values, weights_[value])
    IN  IF part.set_left_values = {}
        THEN [part EXCEPT !.set_left_values = @ \cup {value}]
        ELSE IF RLe(gain_assigning_left, gain_assigning_right)
        THEN [part EXCEPT !.set_right_values = @ \cup {value},
                          !.cut_val = RAdd(@, gain_assigning_right)]
        ELSE [part EXCEPT !.set_left_values = @ \cup {value},
                          !.cut_val = RAdd(@, gain_assigning_left)]

RECURSIVE InitialPartitionLoop(_, _, _, _)
InitialPartitionLoop(part, value, num_values, weights_) ==
    IF value >= num_values THEN part
    ELSE InitialPartitionLoop(InitialPartitionStep(part, value, weights_), value + 1, num_values, weights_)

\* LSSquaredGini._generate_initial_partition
_generate_initial_partition(num_values, weights_) ==
    InitialPartitionLoop([cut_val |-> RInt(0), set_left_values |-> {}, set_right_values |-> {}],
                         0, num_values, weights_)

\* LSSquaredGini._split_gain_for_single_switch with the signs of the two
\* sides exchanged
_split_gain_for_single_switch_signs_exchanged(curr_gain, left_new_values, right_new_values, new_value_to_change_sides, weights_) ==
    IF new_value_to_change_sides \in left_new_values
    THEN RAdd(RSub(curr_gain,
                   WeightsTo(weights_, left_new_values \ {new_value_to_change_sides}, new_value_to_change_sides)),
              WeightsTo(weights_, right_new_values, new_value_to_change_sides))
    ELSE RSub(RAdd(curr_gain,
                   WeightsTo(weights_, left_new_values, new_value_to_change_sides)),
              WeightsTo(weights_, right_new_values \ {new_value_to_change_sides}, new_value_to_change_sides))

\* LSSquaredGini._split_gain_for_single_switch
_split_gain_for_single_switch(curr_gain, left_new_values, right_new_values, new_value_to_change_sides, weights_) ==
    IF new_value_to_change_sides \in left_new_values
    THEN RSub(RAdd(curr_gain,
                   WeightsTo(weights_, left_new_values \ {new_value_to_change_sides}, new_value_to_change_sides)),
              WeightsTo(weights_, right_new_values, new_value_to_change_sides))
    ELSE RAdd(RSub(curr_gain,
                   WeightsTo(weights_, left_new_values, new_value_to_change_sides)),
              WeightsTo(weights_, right_new_values \ {new_value_to_change_sides}, new_value_to_change_sides))

\* The pair swap taken to leave the cut value as it is.
_split_gain_for_double_switch_unchanged(curr_gain, left_new_values, right_new_values, new_values_to_change_sides, weights_) ==
    curr_gain

\* LSSquaredGini._split_gain_for_double_switch
_split_gain_for_double_switch(curr_gain, left_new_values, right_new_values, new_values_to_change_sides, weights_) ==
    LET first_value_to_change_sides == new_values_to_change_sides[1]
        second_value_to_change_sides == new_values_to_change_sides[2]
        FirstMinusSecond(values) ==
            RSub(WeightsTo(weights_, values, first_value_to_change_sides),
                 WeightsTo(weights_, values, second_value_to_change_sides))
    IN  IF first_value_to_change_sides \in left_new_values
        THEN RSub(RAdd(curr_gain, FirstMinusSecond(left_new_values \ {first_value_to_change_sides})),
                  FirstMinusSecond(right_new_values \ {second_value_to_change_sides}))
        ELSE RAdd(RSub(curr_gain, FirstMinusSecond(left_new_values \ {second_value_to_change_sides})),
                  FirstMinusSecond(right_new_values \ {first_value_to_change_sides}))

\* The test `new_cut_val - curr_cut_val >= 0`, without EPSILON.
IsImprovementWithoutEpsilon(new_cut_val, curr_cut_val) ==
    RSub(new_cut_val, curr_cut_val).num >= 0

\* The test `new_cut_val - curr_cut_val >= EPSILON`: num/den >= EPSILON exactly
\* when num >= ceiling(den * EPSILON), computed without leaving 32 bits.
IsImprovement(new_cut_val, curr_cut_val) ==
    LET diff == RSub(new_cut_val, curr_cut_val)
    IN  diff.num >= (diff.den * EPSILON.num + EPSILON.den - 1) \div EPSILON.den

\* The state of _switch_while_increase before its loop. moved and swapped
\* record whether the run has applied a single switch and a pair swap.
SearchStart(cut_val, set_left_values, set_right_values) ==
    [curr_cut_val |-> cut_val, set_left_values |-> set_left_values,
     set_right_values |-> set_right_values, found_improvement |-> TRUE,
     moved |-> FALSE, swapped |-> FALSE]

\* The single switch without `found_improvement = True`.
SwitchSingleFlagUnset(st, value, new_cut_val) ==
    [st EXCEPT !.curr_cut_val = new_cut_val,
               !.set_left_values = IF value \in @ THEN @ \ {value} ELSE @ \cup {value},
               !.set_right_values = IF value \in st.set_left_values THEN @ \cup {value} ELSE @ \ {value},
               !.moved = TRUE]

\* _switch_while_increase: the body of `if new_cut_val - curr_cut_val >= EPSILON`
\* of the single switch
SwitchSingle(st, value, new_cut_val) ==
    [st EXCEPT !.curr_cut_val = new_cut_val,
               !.set_left_values = IF value \in @ THEN @ \ {value} ELSE @ \cup {value},
               !.set_right_values = IF value \in st.set_left_values THEN @ \cup {value} ELSE @ \ {value},
               !.found_improvement = TRUE,
               !.moved = TRUE]

\* _switch_while_increase: the body of `if new_cut_val - curr_cut_val >= EPSILON`
\* of the pair swap
SwitchPair(st, value1, value2, new_cut_val) ==
    LET to_right == IF value1 \in st.set_left_values THEN value1 ELSE value2
        to_left == IF value1 \in st.set_left_values THEN value2 ELSE value1
    IN  [st EXCEPT !.curr_cut_val = new_cut_val,
                   !.set_left_values = (@ \ {to_right}) \cup {to_left},
                   !.set_right_values = (@ \cup {to_right}) \ {to_left},
                   !.found_improvement = TRUE,
                   !.swapped = TRUE]

\* The weight of the cut between two sets of values.
CutWeight(weights_, set_left_values, set_right_values) ==
    RSumOver(set_left_values,
             [value \in DOMAIN weights_ |-> WeightsTo(weights_, set_right_values, value)])

(***************************************************************************)
(* Specification of the local search. The edge weights come from the       *)
(* contingency tables with at most LSMaxSamples samples; a run starts from  *)
(* the greedy partition or from any partition with its cut weight, and the  *)
(* search is then run a second time on what it returned.                    *)
(***************************************************************************)
LSCriteria == {"LSSquaredGini", "LSChiSquare"}

LSTables ==
    {t \in TablesUpTo(LSMaxSamples, 0 .. (LSNumValues - 1), 0 .. (LSNumClasses - 1)) : NumSamples(t) > 0}

\* _generate_best_split: `weights = _init_values_weights(...)` on the table
\* that _remove_empty_values returns
WeightsOfTable(name, table) ==
    LET new == _remove_empty_values(table, ValuesNumSamples(table))
    IN  IF name = "LSSquaredGini"
        THEN LSSquaredGini_init_values_weights(new.new_contingency_table, new.new_value_num_seen)
        ELSE LSChiSquare_init_values_weights(new.new_contingency_table, new.new_value_num_seen)

\* _generate_best_split: _switch_while_increase is called on what
\* _generate_initial_partition returns
SearchStartFromGreedy(weights_) ==
    LET part == _generate_initial_partition(Cardinality(DOMAIN weights_), weights_)
    IN  SearchStart(part.cut_val, part.set_left_values, part.set_right_values)

\* _generate_best_split: the greedy initial partition and the entry of
\* _switch_while_increase
LSGenerateInitialPartition ==
    /\ pc = "input"
    /\ ls' = SearchStartFromGreedy(weights)
    /\ run' = 1
    /\ pc' = "while"
    /\ UNCHANGED <<nonLSVars, result, criterion, weights, first_run>>

\* The entry of _switch_while_increase with any partition of the values.
LSStartFromPartition ==
    /\ pc = "input"
    /\ \E set_left_values \in SUBSET (DOMAIN weights) :
          LET set_right_values == (DOMAIN weights) \ set_left_values
          IN  ls' = SearchStart(CutWeight(weights, set_left_values, set_right_values),
                                set_left_values, set_right_values)
    /\ run' = 1
    /\ pc' = "while"
    /\ UNCHANGED <<nonLSVars, result, criterion, weights, first_run>>

\* `while found_improvement: found_improvement = False`
LSWhileEnter ==
    /\ pc = "while"
    /\ ls.found_improvement
    /\ ls' = [ls EXCEPT !.found_improvement = FALSE]
    /\ pc' = "single"
    /\ UNCHANGED <<nonLSVars, result, criterion, weights, run, first_run>>

SingleSwitchCutVal(value) ==
    _split_gain_for_single_switch(ls.curr_cut_val, ls.set_left_values, ls.set_right_values, value, weights)

DoubleSwitchCutVal(value1, value2) ==
    _split_gain_for_double_switch(ls.curr_cut_val, ls.set_left_values, ls.set_right_values, <<value1, value2>>, weights)

OnDifferentSides(value1, value2) ==
    /\ value1 # value2
    /\ ~ (value1 \in ls.set_left_values /\ value2 \in ls.set_left_values)
    /\ ~ (value1 \in ls.set_right_values /\ value2 \in ls.set_right_values)

\* `for value in values_seen`: the first value of the iteration whose switch
\* improves the cut is switched; the order of the iteration of a set is any.
LSSingleSwitch ==
    /\ pc = "single"
    /\ \E value \in ls.set_left_values \cup ls.set_right_values :
          \E new_cut_val \in {SingleSwitchCutVal(value)} :
             /\ IsImprovement(new_cut_val, ls.curr_cut_val)
             /\ ls' = SwitchSingle(ls, value, new_cut_val)
    /\ pc' = IF ls'.found_improvement THEN "while" ELSE "double"
    /\ UNCHANGED <<nonLSVars, result, criterion, weights, run, first_run>>

\* `for value in values_seen` ends without a break.
LSNoSingleSwitch ==
    /\ pc = "single"
    /\ \A value \in ls.set_left_values \cup ls.set_right_values :
          ~ IsImprovement(SingleSwitchCutVal(value), ls.curr_cut_val)
    /\ pc' = "double"
    /\ UNCHANGED <<nonLSVars, result, criterion, weights, ls, run, first_run>>

\* `for value1, value2 in itertools.combinations(values_seen, 2)`: the first
\* pair on different sides whose swap improves the cut is swapped.
LSDoubleSwitch ==
    /\ pc = "double"
    /\ \E value1, value2 \in ls.set_left_values \cup ls.set_right_values :
          /\ OnDifferentSides(value1, value2)
          /\ \E new_cut_val \in {DoubleSwitchCutVal(value1, value2)} :
                /\ IsImprovement(new_cut_val, ls.curr_cut_val)
                /\ ls' = SwitchPair(ls, value1, value2, new_cut_val)
    /\ pc' = "while"
    /\ UNCHANGED <<nonLSVars, result, criterion, weights, run, first_run>>

\* The loop over the pairs ends without a break.
LSNoDoubleSwitch ==
    /\ pc = "double"
    /\ \A value1, value2 \in ls.set_left_values \cup ls.set_right_values :
          OnDifferentSides(value1, value2)
              => ~ IsImprovement(DoubleSwitchCutVal(value1, value2), ls.curr_cut_val)
    /\ pc' = "while"
    /\ UNCHANGED <<nonLSVars, result, criterion, weights, ls, run, first_run>>

\* `return curr_cut_val, set_left_values, set_right_values`
SearchReturned ==
    [op |-> "_switch_while_increase",
     curr_cut_val |-> ls.curr_cut_val,
     set_left_values |-> ls.set_left_values,
     set_right_values |-> ls.set_right_values]

LSReturn ==
    /\ pc = "while"
    /\ ~ ls.found_improvement
    /\ IF run = 1
       THEN /\ first_run' = SearchReturned
            /\ pc' = "returned"
            /\ UNCHANGED result
       ELSE /\ result' = SearchReturned
            /\ pc' = "done"
            /\ UNCHANGED first_run
    /\ UNCHANGED <<nonLSVars, criterion, weights, ls, run>>

\* _switch_while_increase called on what the first run returned.
LSRerun ==
    /\ pc = "returned"
    /\ ls' = SearchStart(first_run.curr_cut_val, first_run.set_left_values, first_run.set_right_values)
    /\ run' = 2
    /\ pc' = "while"
    /\ UNCHANGED <<nonLSVars, result, criterion, weights, first_run>>

InitLS ==
    /\ pc = "input"
    /\ criterion \in LSCriteria
    /\ weights \in {WeightsOfTable(criterion, table) : table \in LSTables}
    /\ ls = NoSearch
    /\ run = 0
    /\ first_run = NoResult
    /\ result = NoResult
    /\ TrickIdle
    /\ SelectIdle
    /\ values_and_classes = <<>>
    /\ scan = NoScan
    /\ index = 0

NextLS ==
    \/ LSGenerateInitialPartition
    \/ LSStartFromPartition
    \/ LSWhileEnter
    \/ LSSingleSwitch
    \/ LSNoSingleSwitch
    \/ LSDoubleSwitch
    \/ LSNoDoubleSwitch
    \/ LSReturn
    \/ LSRerun

SpecLS == InitLS /\ [][NextLS]_vars

\* A step of the body of _switch_while_increase.
LSLoopStep ==
    \/ LSWhileEnter
    \/ LSSingleSwitch
    \/ LSNoSingleSwitch
    \/ LSDoubleSwitch
    \/ LSNoDoubleSwitch
    \/ LSReturn

\* _switch_while_increase is sequential code: once it is called, the step
\* that is possible is taken.
FairSpecLS == SpecLS /\ WF_vars(LSLoopStep)

(***************************************************************************)
(* Specification of select_best_attribute_and_split. The search of the     *)
(* best split of one attribute is an input: the node carries, for every    *)
(* attribute, the criterion value that search finds, and the two sets of   *)
(* values it finds are SearchedSplitsValues.                               *)
(***************************************************************************)
NominalNumericMaxCriteria == {"Twoing", "LSSquaredGini", "LSChiSquare"}

NominalNumericMinCriteria ==
    {"PCExt", "HypercubeCover", "LargestClassAlone", "PCExtEntropy",
     "HypercubeCoverEntropy", "LargestClassAloneEntropy", "SliqExt", "SliqExtEntropy"}

NominalOnlyCriteria == {"GWSquaredGini", "GWChiSquare"}

ConditionalInferenceCriteria ==
    {"ConditionalInferenceTreeTwoing", "ConditionalInferenceTreeLSSquaredGini",
     "ConditionalInferenceTreeLSChiSquare", "ConditionalInferenceTreeGWSquaredGini",
     "ConditionalInferenceTreeGWChiSquare", "ConditionalInferenceTreePCExt",
     "ConditionalInferenceTreeHypercubeCover", "ConditionalInferenceTreeLargestClassAlone"}

SelectCriteria ==
    NominalNumericMaxCriteria \cup NominalNumericMinCriteria
        \cup NominalOnlyCriteria \cup ConditionalInferenceCriteria

\* Split.__new__.__defaults__ with +infinity in place of -infinity.
SplitDefaultsPosInf == [attrib_index |-> None, splits_values |-> <<>>, criterion_value |-> PosInf]

\* Split.__new__.__defaults__ = (None, [], float('-inf')): what Split() is
SplitDefaults == [attrib_index |-> None, splits_values |-> <<>>, criterion_value |-> NegInf]

Split(attrib_index, splits_values, criterion_value) ==
    [attrib_index |-> attrib_index, splits_values |-> splits_values, criterion_value |-> criterion_value]

SearchedSplitsValues == <<{0}, {1}>>

\* What the numeric scan of a class returns as its criterion value when it
\* finds no cut between unequal values: `best_twoing = float('-inf')` where
\* the best is the largest, float('+inf') where it is the smallest.
NoCutValue(name) == IF name \in NominalNumericMinCriteria THEN PosInf ELSE NegInf

\* `splits_values=[{last_left_value}, {first_right_value}]`: the scan that
\* finds no cut returns None for both values.
NumericSplitsValues(criterion_value) ==
    IF criterion_value.den = 0 THEN <<{None}, {None}>> ELSE SearchedSplitsValues

\* What a node holds of one attribute: an attribute is nominal or numeric, so
\* at most one flag is set; the criterion value and the size of the table
\* count only where the class reads them.
AttributeInputs(name) ==
    LET values == {RInt(v) : v \in 0 .. SelectMaxValue}
        bigs == IF name \in ConditionalInferenceCriteria THEN BOOLEAN ELSE {FALSE}
    IN  {[nominal |-> FALSE, numeric |-> FALSE, criterion_value |-> RInt(0), big |-> FALSE]}
        \cup {[nominal |-> TRUE, numeric |-> FALSE, criterion_value |-> v, big |-> b] : v \in values, b \in bigs}
        \cup {[nominal |-> FALSE, numeric |-> TRUE, criterion_value |-> v, big |-> FALSE] :
                 v \in IF name \in NominalNumericMaxCriteria \cup NominalNumericMinCriteria
                       THEN values \cup {NoCutValue(name)} ELSE {RInt(0)}}

NodeOfAttributes(attributes) ==
    [valid_nominal_attribute |-> [i \in DOMAIN attributes |-> attributes[i].nominal],
     valid_numeric_attribute |-> [i \in DOMAIN attributes |-> attributes[i].numeric],
     criterion_value |-> [i \in DOMAIN attributes |-> attributes[i].criterion_value],
     is_big_contingency_table |-> [i \in DOMAIN attributes |-> attributes[i].big]]

TreeNodes(name) ==
    {NodeOfAttributes(attributes) :
        attributes \in UNION {[1 .. n -> AttributeInputs(name)] : n \in 0 .. SelectMaxAttributes}}

NumAttributes == Len(tree_node.valid_nominal_attribute)

\* `best_splits_per_attrib = []`, and in the conditional inference classes the
\* loop that sets use_chi2
SelectEnter ==
    /\ pc = "input"
    /\ select' = [attrib_index |-> 0,
                  best_splits_per_attrib |-> <<>>,
                  use_chi2 |-> /\ criterion \in ConditionalInferenceCriteria
                               /\ \E i \in 1 .. NumAttributes :
                                     /\ tree_node.valid_nominal_attribute[i]
                                     /\ tree_node.is_big_contingency_table[i]]
    /\ pc' = "loop"
    /\ UNCHANGED <<nonSelectVars, result, criterion, tree_node>>

\* The loop over the attributes: the attribute at select.attrib_index.
AppendSplit(splits_values) ==
    select' = [select EXCEPT
                  !.attrib_index = @ + 1,
                  !.best_splits_per_attrib =
                      Append(@, Split(select.attrib_index, splits_values,
                                      tree_node.criterion_value[select.attrib_index + 1]))]

\* `if is_valid_nominal_attrib:` (`if is_valid_attrib:`): the split of the
\* attribute is appended; the conditional inference classes append it with
\* splits_values=[]
SelectNominalAttribute ==
    /\ pc = "loop"
    /\ select.attrib_index < NumAttributes
    /\ tree_node.valid_nominal_attribute[select.attrib_index + 1]
    /\ AppendSplit(IF criterion \in ConditionalInferenceCriteria THEN <<>> ELSE SearchedSplitsValues)
    /\ UNCHANGED <<nonSelectVars, pc, result, criterion, tree_node>>

\* `elif is_valid_numeric_attrib:` of the classes that read the numeric flags
SelectNumericAttribute ==
    /\ pc = "loop"
    /\ select.attrib_index < NumAttributes
    /\ criterion \in NominalNumericMaxCriteria \cup NominalNumericMinCriteria
    /\ ~ tree_node.valid_nominal_attribute[select.attrib_index + 1]
    /\ tree_node.valid_numeric_attribute[select.attrib_index + 1]
    /\ AppendSplit(NumericSplitsValues(tree_node.criterion_value[select.attrib_index + 1]))
    /\ UNCHANGED <<nonSelectVars, pc, result, criterion, tree_node>>

\* The attribute that is not valid nominal appended a split whenever it is
\* valid numeric, whatever the class.
SelectSkipAttributeUnlessNumeric ==
    /\ pc = "loop"
    /\ select.attrib_index < NumAttributes
    /\ ~ tree_node.valid_nominal_attribute[select.attrib_index + 1]
    /\ \/ ~ tree_node.valid_numeric_attribute[select.attrib_index + 1]
       \/ criterion \notin NominalNumericMaxCriteria \cup NominalNumericMinCriteria
    /\ IF tree_node.valid_numeric_attribute[select.attrib_index + 1]
       THEN AppendSplit(NumericSplitsValues(tree_node.criterion_value[select.attrib_index + 1]))
       ELSE select' = [select EXCEPT !.attrib_index = @ + 1]
    /\ UNCHANGED <<nonSelectVars, pc, result, criterion, tree_node>>

\* An attribute that is appended nothing for.
SelectSkipAttribute ==
    /\ pc = "loop"
    /\ select.attrib_index < NumAttributes
    /\ ~ tree_node.valid_nominal_attribute[select.attrib_index + 1]
    /\ \/ ~ tree_node.valid_numeric_attribute[select.attrib_index + 1]
       \/ criterion \notin NominalNumericMaxCriteria \cup NominalNumericMinCriteria
    /\ select' = [select EXCEPT !.attrib_index = @ + 1]
    /\ UNCHANGED <<nonSelectVars, pc, result, criterion, tree_node>>

\* max(...) and min(...) returning the last split among those of the extreme
\* criterion value.
BestSplitLastOfTies(name, best_splits_per_attrib) ==
    LET Better(a, b) == IF name \in NominalNumericMinCriteria
                        THEN RLt(a.criterion_value, b.criterion_value)
                        ELSE RLt(b.criterion_value, a.criterion_value)
        best == CHOOSE i \in DOMAIN best_splits_per_attrib :
                    /\ \A j \in DOMAIN best_splits_per_attrib :
                          ~ Better(best_splits_per_attrib[j], best_splits_per_attrib[i])
                    /\ \A j \in (i + 1) .. Len(best_splits_per_attrib) :
                          Better(best_splits_per_attrib[i], best_splits_per_attrib[j])
    IN  best_splits_per_attrib[best]

\* max(best_splits_per_attrib, key=...) and min(...): the first split among
\* those of the extreme criterion value
BestSplit(name, best_splits_per_attrib) ==
    LET Better(a, b) == IF name \in NominalNumericMinCriteria
                        THEN RLt(a.criterion_value, b.criterion_value)
                        ELSE RLt(b.criterion_value, a.criterion_value)
        best == CHOOSE i \in DOMAIN best_splits_per_attrib :
                    /\ \A j \in DOMAIN best_splits_per_attrib :
                          ~ Better(best_splits_per_attrib[j], best_splits_per_attrib[i])
                    /\ \A j \in 1 .. (i - 1) :
                          Better(best_splits_per_attrib[i], best_splits_per_attrib[j])
    IN  best_splits_per_attrib[best]

\* `if best_splits_per_attrib: return max(...)` (min(...)); the conditional
\* inference classes search the split of the best attribute first
SelectReturnBest ==
    /\ pc = "loop"
    /\ select.attrib_index >= NumAttributes
    /\ select.best_splits_per_attrib # <<>>
    /\ LET best_split == BestSplit(criterion, select.best_splits_per_attrib)
       IN  result' = IF criterion \in ConditionalInferenceCriteria
                     THEN Split(best_split.attrib_index, SearchedSplitsValues, best_split.criterion_value)
                     ELSE best_split
    /\ pc' = "done"
    /\ UNCHANGED <<nonSelectVars, criterion, tree_node, select>>

\* `return Split()`
SelectReturnEmpty ==
    /\ pc = "loop"
    /\ select.attrib_index >= NumAttributes
    /\ select.best_splits_per_attrib = <<>>
    /\ result' = SplitDefaults
    /\ pc' = "done"
    /\ UNCHANGED <<nonSelectVars, criterion, tree_node, select>>

InitSelect ==
    /\ pc = "input"
    /\ criterion \in SelectCriteria
    /\ tree_node \in TreeNodes(criterion)
    /\ select = NoSelect
    /\ result = NoResult
    /\ TrickIdle
    /\ LSIdle
    /\ values_and_classes = <<>>
    /\ scan = NoScan
    /\ index = 0

NextSelect ==
    \/ SelectEnter
    \/ SelectNominalAttribute
    \/ SelectNumericAttribute
    \/ SelectSkipAttribute
    \/ SelectReturnBest
    \/ SelectReturnEmpty

SpecSelect == InitSelect /\ [][NextSelect]_vars

(***************************************************************************)
(* PCExt._group_values: the values whose class probability vectors are     *)
(* close (np.allclose) are merged into one row.                            *)
(***************************************************************************)
\* np.allclose on one entry: |a - b| <= atol + rtol * |b|. With d the
\* absolute cross difference of a and b this is
\* d * AtolInverse <= a.den * b.den + (AtolInverse / RtolInverse) * |b.num| * a.den,
\* computed here with floor divisions that keep every term in 32 bits.
AllcloseEntry(a, b) ==
    LET d == Abs(a.num * b.den - b.num * a.den)
        ratio == AllcloseAtolInverse \div AllcloseRtolInverse
    IN  d <= ((a.den * b.den) \div ratio + Abs(b.num) * a.den) \div AllcloseRtolInverse

\* np.allclose(prob_matrix[compared_index], prob_matrix[interm_index])
Allclose(row_a, row_b) == \A c \in DOMAIN row_a : AllcloseEntry(row_a[c], row_b[c])

\* prob_matrix: row i holds the class probabilities of the value i
ProbMatrix(table, values_num_samples) ==
    [i \in DOMAIN table |-> [c \in DOMAIN table[i] |-> Rat(table[i][c], values_num_samples[i])]]

\* The lexicographic order of two probability vectors, class 0 first.
LexLess(row_a, row_b) ==
    \E c \in DOMAIN row_a :
        /\ RLt(row_a[c], row_b[c])
        /\ \A c2 \in DOMAIN row_a : c2 < c => row_a[c2] = row_b[c2]

\* np.lexsort(prob_matrix_transposed[::-1]): the rows in lexicographic order,
\* equal rows in the order of their indices
RowOrder(prob_matrix) ==
    LET Before(i, j) == \/ LexLess(prob_matrix[i], prob_matrix[j])
                        \/ prob_matrix[i] = prob_matrix[j] /\ i < j
    IN  [position \in DOMAIN prob_matrix |->
            CHOOSE i \in DOMAIN prob_matrix :
                Cardinality({j \in DOMAIN prob_matrix : Before(j, i)}) = position]

\* The body of `for interm_index in row_order[1:]`
GroupStep(grouping, interm_index, prob_matrix, interm_to_orig_value_int) ==
    IF Allclose(prob_matrix[grouping.compared_index], prob_matrix[interm_index])
    THEN [grouping EXCEPT
             !.new_index_to_old[Len(grouping.new_index_to_old)] =
                 Append(@, interm_to_orig_value_int[interm_index])]
    ELSE [compared_index |-> interm_index,
          new_index_to_old |-> Append(grouping.new_index_to_old, <<interm_to_orig_value_int[interm_index]>>)]

RECURSIVE GroupLoop(_, _, _, _, _)
GroupLoop(grouping, position, row_order, prob_matrix, interm_to_orig_value_int) ==
    IF position \notin DOMAIN row_order THEN grouping
    ELSE GroupLoop(GroupStep(grouping, row_order[position], prob_matrix, interm_to_orig_value_int),
                   position + 1, row_order, prob_matrix, interm_to_orig_value_int)

\* The set of the elements of a sequence.
Range(seq) == {seq[k] : k \in DOMAIN seq}

\* PCExt._group_values
_group_values(table, values_num_samples) ==
    LET interm == _remove_empty_values(table, values_num_samples)
        prob_matrix == ProbMatrix(interm.new_contingency_table, interm.new_value_num_seen)
        row_order == RowOrder(prob_matrix)
        first == [compared_index |-> row_order[0],
                  new_index_to_old |-> <<<<interm.new_to_orig_value_int[row_order[0]]>>>>]
        new_index_to_old ==
            GroupLoop(first, 1, row_order, prob_matrix, interm.new_to_orig_value_int).new_index_to_old
        new_values == 0 .. (Len(new_index_to_old) - 1)
    IN  [new_contingency_table |->
             [new_index \in new_values |->
                 [c \in DOMAIN table[0] |->
                     SumOver(Range(new_index_to_old[new_index + 1]),
                             [old_index \in DOMAIN table |-> table[old_index][c]])]],
         new_num_samples_per_value |->
             [new_index \in new_values |->
                 SumOver(Range(new_index_to_old[new_index + 1]), values_num_samples)],
         new_index_to_old |-> new_index_to_old]

(***************************************************************************)
(* Specification of _group_values: a table is grouped, then the table that *)
(* was returned is grouped again. The tables are the small ones and those  *)
(* of nearly proportional rows (c, c + 1, 0, ...).                         *)
(***************************************************************************)
GroupValues == 0 .. (GroupNumValues - 1)
GroupClasses == 0 .. (GroupNumClasses - 1)

NearRow(count) ==
    [c \in GroupClasses |-> IF c = 0 THEN count ELSE IF c = 1 THEN count + 1 ELSE 0]

NearTables ==
    {[value \in GroupValues |-> NearRow(GroupNearBase + shift[value])] :
        shift \in [GroupValues -> 0 .. GroupNearSpread]}

GroupTables ==
    {t \in TablesUpTo(GroupMaxSamples, GroupValues, GroupClasses) : NumSamples(t) > 0} \cup NearTables

\* `cls._group_values(contingency_table, values_num_samples)`
GroupTheValues ==
    /\ pc = "input"
    /\ result' = [op |-> "_group_values",
                  grouped |-> _group_values(contingency_table, ValuesNumSamples(contingency_table))]
    /\ pc' = "grouped"
    /\ UNCHANGED <<contingency_table, nonTrickVars>>

\* _group_values on the table and the numbers of samples it returned.
GroupTheGroups ==
    /\ pc = "grouped"
    /\ result' = [op |-> "_group_values",
                  grouped |-> result.grouped,
                  regrouped |-> _group_values(result.grouped.new_contingency_table,
                                              result.grouped.new_num_samples_per_value)]
    /\ pc' = "done"
    /\ UNCHANGED <<contingency_table, nonTrickVars>>

InitGroup ==
    /\ pc = "input"
    /\ contingency_table \in GroupTables
    /\ result = NoResult
    /\ NumericIdle
    /\ LSIdle
    /\ SelectIdle

NextGroup ==
    \/ GroupTheValues
    \/ GroupTheGroups

SpecGroup == InitGroup /\ [][NextGroup]_vars

(***************************************************************************)
(* Specification of the Goemans-Williamson criteria. _solve_max_cut is the  *)
(* output of the SCS solver followed by a Cholesky factorisation, and       *)
(* _generate_random_partition projects it on a vector drawn by              *)
(* np.random.randn: the signs of the projections are any.                   *)
(***************************************************************************)
GWCriteria == {"GWSquaredGini", "GWChiSquare"}

GWTables ==
    {t \in TablesUpTo(GWMaxSamples, 0 .. (GWNumValues - 1), 0 .. (GWNumClasses - 1)) : NumSamples(t) > 0}

\* GWSquaredGini._generate_best_split._init_values_weights
GWSquaredGini_init_values_weights(new_contingency_table, new_values_num_seen) ==
    [value_index_i \in DOMAIN new_values_num_seen |->
        [value_index_j \in DOMAIN new_values_num_seen |->
            IF value_index_i = value_index_j THEN RInt(0)
            ELSE RInt(SumOver(DOMAIN new_contingency_table[value_index_i],
                              [class_index \in DOMAIN new_contingency_table[value_index_i] |->
                                  new_contingency_table[value_index_i][class_index]
                                  * (new_values_num_seen[value_index_j]
                                     - new_contingency_table[value_index_j][class_index])]))]]

\* GWChiSquare._generate_best_split._init_values_weights: the statements are
\* those of LSChiSquare's
GWChiSquare_init_values_weights(new_contingency_table, new_values_num_seen) ==
    LSChiSquare_init_values_weights(new_contingency_table, new_values_num_seen)

\* _generate_random_partition: the values whose projection is > 0.0 go left
_generate_random_partition(values_split_bool) ==
    [left_new_values |-> {new_value \in DOMAIN values_split_bool : values_split_bool[new_value]},
     right_new_values |-> {new_value \in DOMAIN values_split_bool : ~ values_split_bool[new_value]}]

\* The side returned in the values of the table without its empty values.
_get_split_in_new_values(new_to_orig_value_int, new_values) == new_values

\* _get_split_in_orig_values, for one side
_get_split_in_orig_values(new_to_orig_value_int, new_values) ==
    {new_to_orig_value_int[new_value] : new_value \in new_values}

\* _calculate_split_value: the sum of weights[value_left, value_right] over
\* itertools.product(left_new_values, right_new_values)
_calculate_split_value(left_new_values, right_new_values, weights_) ==
    RSumOver(left_new_values,
             [value_left \in DOMAIN weights_ |->
                 RSumOver(right_new_values,
                          [value_right \in DOMAIN weights_ |-> weights_[value_left][value_right]])])

\* _generate_best_split: `weights = _init_values_weights(...)` on the table
\* that _remove_empty_values returned
GWInitValuesWeights ==
    /\ pc = "input"
    /\ LET new == _remove_empty_values(contingency_table, ValuesNumSamples(contingency_table))
       IN  weights' = IF criterion = "GWSquaredGini"
                      THEN GWSquaredGini_init_values_weights(new.new_contingency_table, new.new_value_num_seen)
                      ELSE GWChiSquare_init_values_weights(new.new_contingency_table, new.new_value_num_seen)
    /\ pc' = "rounding"
    /\ UNCHANGED <<contingency_table, result, numericVars, ls, run, first_run, selectVars>>

\* _generate_best_split from _solve_max_cut to its return: the rounded
\* partition is returned with its cut value.
GWGenerateBestSplit ==
    /\ pc = "rounding"
    /\ \E values_split_bool \in [DOMAIN weights -> BOOLEAN] :
          LET new == _remove_empty_values(contingency_table, ValuesNumSamples(contingency_table))
              part == _generate_random_partition(values_split_bool)
          IN  result' = [op |-> "_generate_best_split",
                         cut_val |-> _calculate_split_value(part.left_new_values, part.right_new_values, weights),
                         left_new_values |-> part.left_new_values,
                         right_new_values |-> part.right_new_values,
                         left_orig_values |-> _get_split_in_orig_values(new.new_to_orig_value_int, part.left_new_values),
                         right_orig_values |-> _get_split_in_orig_values(new.new_to_orig_value_int, part.right_new_values)]
    /\ pc' = "done"
    /\ UNCHANGED <<contingency_table, weights, numericVars, ls, run, first_run, selectVars>>

InitGW ==
    /\ pc = "input"
    /\ criterion \in GWCriteria
    /\ contingency_table \in GWTables
    /\ result = NoResult
    /\ values_and_classes = <<>>
    /\ scan = NoScan
    /\ index = 0
    /\ LSIdle
    /\ SelectIdle

NextGW ==
    \/ GWInitValuesWeights
    \/ GWGenerateBestSplit

SpecGW == InitGW /\ [][NextGW]_vars

(***************************************************************************)
(* Specification of _generate_best_split of the LS criteria on a            *)
(* contingency table: the removal of the empty values, the weights, the     *)
(* greedy partition, the local search with the steps of SpecLS, and the     *)
(* return in the original values.                                           *)
(***************************************************************************)
\* select_best_attribute_and_split: _remove_empty_values on the table of the
\* attribute; _generate_best_split down to the entry of _switch_while_increase
LSSplitStart ==
    /\ pc = "table"
    /\ weights' = WeightsOfTable(criterion, contingency_table)
    /\ ls' = SearchStartFromGreedy(weights')
    /\ first_run' = [op |-> "_generate_initial_partition",
                     curr_cut_val |-> ls'.curr_cut_val,
                     set_left_values |-> ls'.set_left_values,
                     set_right_values |-> ls'.set_right_values]
    /\ run' = 2
    /\ pc' = "while"
    /\ UNCHANGED <<nonLSVars, result, criterion>>

\* `if cut_val_switched > cut_val:` and the return of _generate_best_split:
\* the switched partition or the greedy one, in the original values
LSSplitReturn ==
    /\ pc = "done"
    /\ result.op = "_switch_while_increase"
    /\ LET new == _remove_empty_values(contingency_table, ValuesNumSamples(contingency_table))
           switched == RLt(first_run.curr_cut_val, result.curr_cut_val)
           chosen == IF switched THEN result ELSE first_run
       IN  result' = [op |-> "_generate_best_split",
                      cut_val |-> chosen.curr_cut_val,
                      left_orig_values |-> _get_split_in_orig_values(new.new_to_orig_value_int, chosen.set_left_values),
                      right_orig_values |-> _get_split_in_orig_values(new.new_to_orig_value_int, chosen.set_right_values)]
    /\ UNCHANGED <<nonLSVars, pc, criterion, weights, ls, run, first_run>>

\* The tables of at most LSSplitMaxSamples samples, no two samples of a value
\* in the same class.
LSSplitTables ==
    {t \in [0 .. (LSNumValues - 1) -> [0 .. (LSNumClasses - 1) -> 0 .. 1]] :
        NumSamples(t) \in 1 .. LSSplitMaxSamples}

InitLSSplit ==
    /\ pc = "table"
    /\ criterion \in LSCriteria
    /\ contingency_table \in LSSplitTables
    /\ result = NoResult
    /\ LSIdle
    /\ SelectIdle
    /\ values_and_classes = <<>>
    /\ scan = NoScan
    /\ index = 0

NextLSSplit ==
    \/ LSSplitStart
    \/ LSWhileEnter
    \/ LSSingleSwitch
    \/ LSNoSingleSwitch
    \/ LSDoubleSwitch
    \/ LSNoDoubleSwitch
    \/ LSReturn
    \/ LSSplitReturn

SpecLSSplit == InitLSSplit /\ [][NextLSSplit]_vars

(***************************************************************************)
(* Specification of the generator Twoing._generate_twoing, one yield per    *)
(* step. itertools.combinations follows the order in which the set          *)
(* non_empty_classes is iterated, which for small integers is ascending.    *)
(***************************************************************************)
TwoingClassIndexNumSamples ==
    [0 .. (TwoingNumClasses - 1) -> 0 .. TwoingMaxClassSamples]

\* `range(1, number_non_empty_classes // 2 + 1)` ending one size earlier.
LastSizeLeftSuperclassBelowHalf(number_non_empty_classes) == (number_non_empty_classes - 1) \div 2

\* The last size of `range(1, number_non_empty_classes // 2 + 1)`
LastSizeLeftSuperclass(number_non_empty_classes) == number_non_empty_classes \div 2

\* itertools.combinations(non_empty_classes, size_left_superclass)
Combinations(non_empty_classes, size_left_superclass) ==
    {left_classes \in SUBSET non_empty_classes : Cardinality(left_classes) = size_left_superclass}

\* The order of itertools.combinations: the combination that holds the least
\* class in which two combinations differ comes first.
CombinationBefore(left_classes, other) ==
    /\ left_classes # other
    /\ LET differ == (left_classes \ other) \cup (other \ left_classes)
       IN  (CHOOSE c \in differ : \A d \in differ : c <= d) \in left_classes

\* The left sets of the pairs yielded so far.
YieldedLeftClasses == {result.yielded[k][1] : k \in DOMAIN result.yielded}

\* The combinations of the current size that are still to come.
CombinationsToCome ==
    Combinations(scan.non_empty_classes, scan.size_left_superclass) \ YieldedLeftClasses

\* The loop that collects non_empty_classes
TwoingEnter ==
    /\ pc = "input"
    /\ scan' = [non_empty_classes |->
                    {class_index \in DOMAIN tree_node.class_index_num_samples :
                        tree_node.class_index_num_samples[class_index] > 0},
                size_left_superclass |-> 1]
    /\ result' = [op |-> "_generate_twoing", yielded |-> <<>>]
    /\ pc' = "combinations"
    /\ UNCHANGED <<contingency_table, criterion, values_and_classes, index, lsVars, selectVars>>

\* The next combination of the current size: `yield set_left_classes,
\* set_right_classes` unless a side is empty
TwoingYield ==
    /\ pc = "combinations"
    /\ scan.size_left_superclass <= LastSizeLeftSuperclass(Cardinality(scan.non_empty_classes))
    /\ CombinationsToCome # {}
    /\ LET set_left_classes ==
               CHOOSE left_classes \in CombinationsToCome :
                   \A other \in CombinationsToCome \ {left_classes} : CombinationBefore(left_classes, other)
           set_right_classes == scan.non_empty_classes \ set_left_classes
       IN  /\ set_left_classes # {}
           /\ set_right_classes # {}
           /\ result' = [result EXCEPT !.yielded = Append(@, <<set_left_classes, set_right_classes>>)]
    /\ UNCHANGED <<pc, contingency_table, criterion, values_and_classes, scan, index, lsVars, selectVars>>

\* The combinations of the current size are exhausted: the next size.
TwoingNextSize ==
    /\ pc = "combinations"
    /\ scan.size_left_superclass <= LastSizeLeftSuperclass(Cardinality(scan.non_empty_classes))
    /\ CombinationsToCome = {}
    /\ scan' = [scan EXCEPT !.size_left_superclass = @ + 1]
    /\ UNCHANGED <<pc, contingency_table, result, criterion, values_and_classes, index, lsVars, selectVars>>

\* The generator is exhausted.
TwoingReturn ==
    /\ pc = "combinations"
    /\ scan.size_left_superclass > LastSizeLeftSuperclass(Cardinality(scan.non_empty_classes))
    /\ pc' = "done"
    /\ UNCHANGED <<contingency_table, result, criterion, values_and_classes, scan, index, lsVars, selectVars>>

InitTwoing ==
    /\ pc = "input"
    /\ criterion = "Twoing"
    /\ tree_node \in {[valid_nominal_attribute |-> <<>>, class_index_num_samples |-> c] :
                         c \in TwoingClassIndexNumSamples}
    /\ select = NoSelect
    /\ result = NoResult
    /\ TrickIdle
    /\ LSIdle
    /\ values_and_classes = <<>>
    /\ scan = NoScan
    /\ index = 0

NextTwoing ==
    \/ TwoingEnter
    \/ TwoingYield
    \/ TwoingNextSize
    \/ TwoingReturn

SpecTwoing == InitTwoing /\ [][NextTwoing]_vars

(***************************************************************************)
(* Specification of the scan of PCExt.select_best_attribute_and_split over  *)
(* the grouped values of one valid nominal attribute, one pass of the for   *)
(* loop per step. new_indices_order sorts the groups by their inner product *)
(* with an eigenvector that numpy.linalg.eigh returns; every order of the   *)
(* groups is drawn. scan holds the locals of the loop and the candidates    *)
(* handed to _calculate_split_gini_index so far.                            *)
(***************************************************************************)
PCExtTables ==
    {t \in TablesUpTo(PCExtMaxSamples, 0 .. (PCExtNumValues - 1), 0 .. (PCExtNumClasses - 1)) :
        Cardinality({value \in DOMAIN t : RowSum(t, value) > 0}) >= 2}

\* The orders `inner_product_results.argsort()` can give to num_groups groups.
IndicesOrders(num_groups) ==
    {order \in [1 .. num_groups -> 0 .. (num_groups - 1)] :
        \A j, k \in 1 .. num_groups : j # k => order[j] # order[k]}

\* PCExt._change_split_to_use_old_values
_change_split_to_use_old_values(new_left, new_right, new_index_to_old) ==
    <<UNION {Range(new_index_to_old[new_index + 1]) : new_index \in new_left},
      UNION {Range(new_index_to_old[new_index + 1]) : new_index \in new_right}>>

\* `if curr_split_impurity < best_gini:` and the three assignments under it
PCExtKeepBest(best, impurity, left_values, right_values) ==
    IF RLt(impurity, best.best_gini)
    THEN [best_gini |-> impurity, best_left_values |-> left_values, best_right_values |-> right_values]
    ELSE best

\* The lines from _group_values to `right_values = set(new_indices_order)`
PCExtEnter ==
    /\ pc = "input"
    /\ LET grouped == _group_values(contingency_table, ValuesNumSamples(contingency_table))
       IN  \E new_indices_order \in IndicesOrders(Len(grouped.new_index_to_old)) :
               scan' = [grouped |-> grouped,
                        new_indices_order |-> new_indices_order,
                        metaindex |-> 0,
                        best |-> [best_gini |-> PosInf, best_left_values |-> {}, best_right_values |-> {}],
                        left_values |-> {},
                        right_values |-> Range(new_indices_order),
                        scored |-> <<>>]
    /\ pc' = "for"
    /\ UNCHANGED <<contingency_table, result, criterion, values_and_classes, index, lsVars, selectVars>>

\* A pass of the for loop with `if left_values:` false.
PCExtPlainSplit ==
    /\ pc = "for"
    /\ scan.metaindex < Len(scan.new_indices_order)
    /\ scan.left_values = {}
    /\ LET first_right == scan.new_indices_order[scan.metaindex + 1]
           curr_split_impurity ==
               _calculate_split_gini_index(scan.grouped.new_contingency_table,
                                           scan.grouped.new_num_samples_per_value,
                                           scan.left_values, scan.right_values)
       IN  scan' = [scan EXCEPT
                       !.best = PCExtKeepBest(@, curr_split_impurity, scan.left_values, scan.right_values),
                       !.scored = Append(@, <<scan.left_values, scan.right_values>>),
                       !.left_values = @ \cup {first_right},
                       !.right_values = @ \ {first_right},
                       !.metaindex = @ + 1]
    /\ UNCHANGED <<pc, contingency_table, result, criterion, values_and_classes, index, lsVars, selectVars>>

\* A pass of the for loop with `if left_values:` true: the split, then the
\* extended split that swaps last_left and first_right.
PCExtExtendedSplit ==
    /\ pc = "for"
    /\ scan.metaindex < Len(scan.new_indices_order)
    /\ scan.left_values # {}
    /\ LET first_right == scan.new_indices_order[scan.metaindex + 1]
           last_left == scan.new_indices_order[scan.metaindex]
           table == scan.grouped.new_contingency_table
           values_num_samples == scan.grouped.new_num_samples_per_value
           curr_split_impurity ==
               _calculate_split_gini_index(table, values_num_samples, scan.left_values, scan.right_values)
           ext_left_values == (scan.left_values \ {last_left}) \cup {first_right}
           ext_right_values == (scan.right_values \cup {last_left}) \ {first_right}
           curr_ext_split_impurity ==
               _calculate_split_gini_index(table, values_num_samples, ext_left_values, ext_right_values)
           best_of_split ==
               PCExtKeepBest(scan.best, curr_split_impurity, scan.left_values, scan.right_values)
       IN  scan' = [scan EXCEPT
                       !.best = PCExtKeepBest(best_of_split, curr_ext_split_impurity,
                                              ext_left_values, ext_right_values),
                       !.scored = @ \o <<<<scan.left_values, scan.right_values>>,
                                         <<ext_left_values, ext_right_values>>>>,
                       !.left_values = @ \cup {first_right},
                       !.right_values = @ \ {first_right},
                       !.metaindex = @ + 1]
    /\ UNCHANGED <<pc, contingency_table, result, criterion, values_and_classes, index, lsVars, selectVars>>

\* _change_split_to_use_old_values and the Split appended for the attribute
PCExtAppendSplit ==
    /\ pc = "for"
    /\ scan.metaindex = Len(scan.new_indices_order)
    /\ result' = [op |-> "select_best_attribute_and_split",
                  splits_values |->
                      _change_split_to_use_old_values(scan.best.best_left_values,
                                                      scan.best.best_right_values,
                                                      scan.grouped.new_index_to_old),
                  criterion_value |-> scan.best.best_gini]
    /\ pc' = "done"
    /\ UNCHANGED <<contingency_table, criterion, values_and_classes, scan, index, lsVars, selectVars>>

InitPCExtScan ==
    /\ pc = "input"
    /\ contingency_table \in PCExtTables
    /\ result = NoResult
    /\ NumericIdle
    /\ LSIdle
    /\ SelectIdle

NextPCExtScan ==
    \/ PCExtEnter
    \/ PCExtPlainSplit
    \/ PCExtExtendedSplit
    \/ PCExtAppendSplit

SpecPCExtScan == InitPCExtScan /\ [][NextPCExtScan]_vars

(***************************************************************************)
(* Specification of SliqExt._get_best_attribute_split, one pass of the for *)
(* loop per step. The Gini index of a split is a float: the exact value of *)
(* the weighted sum and the units in the last place by which the rounded   *)
(* sum of the two rounded products is off. The error is drawn unless the   *)
(* quotients, the products and the sum are exact; with an empty side the   *)
(* sum is 0.0 * 1.0 + 1.0 * g, which is g. scan holds the locals, pending  *)
(* the values that the for loop has still to visit (a set of small         *)
(* integers is iterated in ascending order).                               *)
(***************************************************************************)
SliqValues == 0 .. (SliqNumValues - 1)
SliqClasses == 0 .. (SliqNumClasses - 1)

\* The small tables, and the tables whose rows are multiples of one row.
SliqTables ==
    TablesUpTo(SliqMaxSamples, SliqValues, SliqClasses)
        \cup {[value \in SliqValues |-> [c \in SliqClasses |-> scale[value] * row[c]]] :
                 scale \in [SliqValues -> 0 .. SliqMaxScale],
                 row \in [SliqClasses -> 0 .. SliqMaxRowCount]}

RoundingErrors == {-1, 0, 1}

FloatOf(exact, ulps) == [num |-> exact.num, den |-> exact.den, ulps |-> ulps]

\* `<` of two floats
FloatLt(a, b) ==
    \/ a.num * b.den < b.num * a.den
    \/ a.num * b.den = b.num * a.den /\ a.ulps < b.ulps

\* The float count / total is the exact quotient: the quotient is a multiple
\* of a power of two not below 2^-MaxDyadicBits.
IsDyadic(count, total) == \E bits \in 0 .. MaxDyadicBits : (count * 2^bits) % total = 0

\* The side's Gini index weighted by its share of the samples is computed
\* without rounding: the side is empty, or holds all the samples, or one
\* class only, or all the quotients are exact.
SideIsExact(num_side_samples, num_samples, num_samples_per_class) ==
    \/ num_side_samples = 0
    \/ num_side_samples = num_samples
    \/ \E c \in DOMAIN num_samples_per_class : num_samples_per_class[c] = num_side_samples
    \/ /\ IsDyadic(num_side_samples, num_samples)
       /\ \A c \in DOMAIN num_samples_per_class : IsDyadic(num_samples_per_class[c], num_side_samples)

\* The floats that SliqExt._calculate_split_gini_index can return.
SliqExtSplitGinis(table, values_num_samples, left_values, right_values) ==
    LET exact == _calculate_split_gini_index(table, values_num_samples, left_values, right_values)
        sides == _get_num_samples_per_side(values_num_samples, left_values, right_values)
    IN  IF /\ SideIsExact(sides[1], sides[1] + sides[2],
                          _get_num_samples_per_class_in_values(table, left_values))
           /\ SideIsExact(sides[2], sides[1] + sides[2],
                          _get_num_samples_per_class_in_values(table, right_values))
        THEN {FloatOf(exact, 0)}
        ELSE {FloatOf(exact, ulps) : ulps \in RoundingErrors}

\* The statements before the while loop.
SliqExtEnter ==
    /\ pc = "input"
    /\ scan' = [best_gini |-> FloatOf(PosInf, 0),
                best_left_values |-> {},
                best_right_values |-> {},
                curr_left_values |-> _get_values_seen(ValuesNumSamples(contingency_table)),
                curr_right_values |-> {},
                iteration_best_gini |-> FloatOf(PosInf, 0),
                iteration_best_left_values |-> {},
                iteration_best_right_values |-> {},
                pending |-> {}]
    /\ pc' = "while"
    /\ UNCHANGED <<contingency_table, result, criterion, values_and_classes, index, lsVars, selectVars>>

\* `while curr_left_values:` true, and the statements before the for loop.
SliqExtWhileEnter ==
    /\ pc = "while"
    /\ scan.curr_left_values # {}
    /\ scan' = [scan EXCEPT !.iteration_best_gini = FloatOf(PosInf, 0),
                            !.iteration_best_left_values = {},
                            !.iteration_best_right_values = {},
                            !.pending = scan.curr_left_values]
    /\ pc' = "for"
    /\ UNCHANGED <<contingency_table, result, criterion, values_and_classes, index, lsVars, selectVars>>

\* One pass of `for value in curr_left_values:`
SliqExtForStep ==
    /\ pc = "for"
    /\ scan.pending # {}
    /\ LET value == CHOOSE v \in scan.pending : \A other \in scan.pending : v <= other
           curr_left_values == scan.curr_left_values \ {value}
           curr_right_values == scan.curr_right_values \cup {value}
       IN  \E curr_gini \in SliqExtSplitGinis(contingency_table, ValuesNumSamples(contingency_table),
                                               curr_left_values, curr_right_values) :
               scan' = IF FloatLt(curr_gini, scan.iteration_best_gini)
                       THEN [scan EXCEPT !.curr_left_values = curr_left_values,
                                         !.curr_right_values = curr_right_values,
                                         !.iteration_best_gini = curr_gini,
                                         !.iteration_best_left_values = curr_left_values,
                                         !.iteration_best_right_values = curr_right_values,
                                         !.pending = @ \ {value}]
                       ELSE [scan EXCEPT !.curr_left_values = curr_left_values,
                                         !.curr_right_values = curr_right_values,
                                         !.pending = @ \ {value}]
    /\ UNCHANGED <<pc, contingency_table, result, criterion, values_and_classes, index, lsVars, selectVars>>

\* The statements of the while loop after the for loop.
SliqExtEndPass ==
    /\ pc = "for"
    /\ scan.pending = {}
    /\ LET kept == IF FloatLt(scan.iteration_best_gini, scan.best_gini)
                   THEN [scan EXCEPT !.best_gini = scan.iteration_best_gini,
                                     !.best_left_values = scan.iteration_best_left_values,
                                     !.best_right_values = scan.iteration_best_right_values]
                   ELSE scan
       IN  scan' = [kept EXCEPT !.curr_left_values = scan.iteration_best_left_values,
                                !.curr_right_values = scan.iteration_best_right_values]
    /\ pc' = "while"
    /\ UNCHANGED <<contingency_table, result, criterion, values_and_classes, index, lsVars, selectVars>>

\* `while curr_left_values:` false, and the return statement.
SliqExtReturn ==
    /\ pc = "while"
    /\ scan.curr_left_values = {}
    /\ result' = [op |-> "_get_best_attribute_split",
                  best_gini |-> scan.best_gini,
                  best_left_values |-> scan.best_left_values,
                  best_right_values |-> scan.best_right_values]
    /\ pc' = "done"
    /\ UNCHANGED <<contingency_table, criterion, values_and_classes, scan, index, lsVars, selectVars>>

InitSliqExt ==
    /\ pc = "input"
    /\ contingency_table \in SliqTables
    /\ result = NoResult
    /\ NumericIdle
    /\ LSIdle
    /\ SelectIdle

NextSliqExt ==
    \/ SliqExtEnter
    \/ SliqExtWhileEnter
    \/ SliqExtForStep
    \/ SliqExtEndPass
    \/ SliqExtReturn

SpecSliqExt == InitSliqExt /\ [][NextSliqExt]_vars

\* The interpreter runs the function to its return.
FairSpecSliqExt == SpecSliqExt /\ WF_vars(NextSliqExt)

(***************************************************************************)
(* Specification of the nominal branch of                                  *)
(* LargestClassAlone.select_best_attribute_and_split on one attribute: the *)
(* largest class against the others, then the two-class trick, whose text  *)
(* is that of HypercubeCover._two_class_trick.                              *)
(***************************************************************************)
LCAClasses == 0 .. (LCANumClasses - 1)

LCATables ==
    {t \in TablesUpTo(LCAMaxSamples, 0 .. (LCANumValues - 1), LCAClasses) : NumSamples(t) > 0}

\* `max(enumerate(tree_node.class_index_num_samples), key=lambda x: x[1])`:
\* the first of the classes with the most samples.
LargestClassIndex(class_index_num_samples) ==
    CHOOSE c \in DOMAIN class_index_num_samples :
        /\ \A d \in DOMAIN class_index_num_samples : class_index_num_samples[d] <= class_index_num_samples[c]
        /\ \A d \in DOMAIN class_index_num_samples :
              d < c => class_index_num_samples[d] < class_index_num_samples[c]

\* LargestClassAlone._get_superclass_contingency_table
LargestClassAlone_get_superclass_contingency_table(table, values_num_samples, class_index_num_samples, largest_classes_index) ==
    [superclass_contingency_table |->
         [value \in DOMAIN table |->
             [superclass \in Superclasses |->
                 IF superclass = 0 THEN table[value][largest_classes_index]
                 ELSE values_num_samples[value] - table[value][largest_classes_index]]],
     superclass_index_num_samples |->
         [superclass \in Superclasses |->
             IF superclass = 0 THEN class_index_num_samples[largest_classes_index]
             ELSE SumOver(DOMAIN class_index_num_samples, class_index_num_samples)
                      - class_index_num_samples[largest_classes_index]]]

\* The nominal branch, to the Split that is appended for the attribute.
LargestClassAloneNominal ==
    /\ pc = "input"
    /\ LET values_num_samples == ValuesNumSamples(contingency_table)
           class_index_num_samples == ClassIndexNumSamples(contingency_table, LCAClasses)
           values_seen == _get_values_seen(values_num_samples)
           largest_class_index == LargestClassIndex(class_index_num_samples)
           superclass ==
               LargestClassAlone_get_superclass_contingency_table(
                   contingency_table, values_num_samples, class_index_num_samples, largest_class_index)
           non_empty == _get_non_empty_class_indices(superclass.superclass_index_num_samples)
           orders == IF non_empty[2] = None THEN {<<>>}
                     ELSE _calculate_value_class_ratio(values_seen, values_num_samples,
                                                       superclass.superclass_contingency_table, non_empty[2])
       IN  \E value_class_ratio \in orders :
               LET trick == HypercubeCover_two_class_trick(
                                class_index_num_samples, superclass.superclass_index_num_samples,
                                values_seen, contingency_table, values_num_samples, value_class_ratio,
                                NumSamples(contingency_table))
               IN  result' = [op |-> "largest_class_alone",
                              splits_values |-> <<trick.left, trick.right>>,
                              criterion_value |-> trick.gini]
    /\ pc' = "done"
    /\ UNCHANGED <<contingency_table, nonTrickVars>>

InitLargestClassAlone ==
    /\ pc = "input"
    /\ contingency_table \in LCATables
    /\ result = NoResult
    /\ NumericIdle
    /\ LSIdle
    /\ SelectIdle

NextLargestClassAlone == LargestClassAloneNominal

SpecLargestClassAlone == InitLargestClassAlone /\ [][NextLargestClassAlone]_vars

(***************************************************************************)
(* Specification of the attribute ranking pass of the conditional inference *)
(* criteria: the choice of the test, the statistic of every valid nominal   *)
(* attribute with the retry loop of _calculate_c_quad_cdf, and the split of *)
(* the best attribute. The statistic that scipy.stats.chi2.cdf returns for  *)
(* an attribute is an input, and a call of a pseudo-inverse raises or not.  *)
(***************************************************************************)
\* A vector of length entries that sum to CINumSamples, the first seen of
\* them positive.
CICounts(length, seen) ==
    [k \in 0 .. (length - 1) |->
        IF k = 0 THEN CINumSamples - (seen - 1) ELSE IF k < seen THEN 1 ELSE 0]

\* values_num_samples of an attribute: two values, or as many seen values as
\* make the table of CIMaxClasses classes reach the threshold, or one more.
CIValuesNumSamples ==
    {CICounts(CIMaxValues, seen) :
        seen \in {2, BIG_CONTINGENCY_TABLE_THRESHOLD \div CIMaxClasses,
                  BIG_CONTINGENCY_TABLE_THRESHOLD \div CIMaxClasses + 1}}

\* tree_node.class_index_num_samples: every class seen, or all but one.
CIClassIndexNumSamples ==
    {CICounts(CIMaxClasses, seen) : seen \in {CIMaxClasses - 1, CIMaxClasses}}

\* The values of scipy.stats.chi2.cdf that the attributes are given.
CIStatistics == {RInt(0), Rat(1, 2), RInt(1)}

CIAttributeInputs ==
    {[nominal |-> FALSE, values_num_samples |-> CICounts(CIMaxValues, 2), statistic |-> RInt(0)]}
    \cup {[nominal |-> TRUE, values_num_samples |-> v, statistic |-> c] :
             v \in CIValuesNumSamples, c \in CIStatistics}

CITreeNodes ==
    {[valid_nominal_attribute |-> [i \in DOMAIN attributes |-> attributes[i].nominal],
      values_num_samples |-> [i \in DOMAIN attributes |-> attributes[i].values_num_samples],
      statistic |-> [i \in DOMAIN attributes |-> attributes[i].statistic],
      class_index_num_samples |-> classes] :
        attributes \in UNION {[1 .. n -> CIAttributeInputs] : n \in 0 .. CIMaxAttributes},
        classes \in CIClassIndexNumSamples}

\* _is_big_contingency_table with >= in place of >.
_is_big_contingency_table_or_equal(values_num_samples, class_index_num_samples) ==
    LET num_values_seen == Cardinality({value \in DOMAIN values_num_samples : values_num_samples[value] > 0})
        num_classes_seen == Cardinality({class_index \in DOMAIN class_index_num_samples : class_index_num_samples[class_index] > 0})
    IN  num_values_seen * num_classes_seen >= BIG_CONTINGENCY_TABLE_THRESHOLD

\* _is_big_contingency_table
_is_big_contingency_table(values_num_samples, class_index_num_samples) ==
    LET num_values_seen == Cardinality({value \in DOMAIN values_num_samples : values_num_samples[value] > 0})
        num_classes_seen == Cardinality({class_index \in DOMAIN class_index_num_samples : class_index_num_samples[class_index] > 0})
    IN  num_values_seen * num_classes_seen > BIG_CONTINGENCY_TABLE_THRESHOLD

\* `use_chi2 = False` and the loop that sets it at the first valid attribute
\* with a big contingency table
UseChi2(node) ==
    \E i \in DOMAIN node.valid_nominal_attribute :
        /\ node.valid_nominal_attribute[i]
        /\ _is_big_contingency_table(node.values_num_samples[i], node.class_index_num_samples)

\* curr_rcond outside _calculate_c_quad_cdf.
NoRcond == [exponent |-> 0, above |-> FALSE]

\* `best_splits_per_attrib = []` and the choice of the test
CIEnter ==
    /\ pc = "input"
    /\ select' = [attrib_index |-> 0,
                  best_splits_per_attrib |-> <<>>,
                  use_chi2 |-> UseChi2(tree_node),
                  branch |-> <<>>,
                  invoked |-> <<>>,
                  curr_rcond |-> NoRcond,
                  pinv_rcond |-> <<>>,
                  pinv_routine |-> "none",
                  searched |-> <<>>]
    /\ pc' = "rank"
    /\ UNCHANGED <<nonSelectVars, result, criterion, tree_node>>

\* `curr_rcond = 1e-15`
InitialRcond == [exponent |-> InitialRcondExponent, above |-> FALSE]

\* `curr_rcond *= 10.` as an exact product.
RcondTimesTenExact(curr_rcond) == [exponent |-> curr_rcond.exponent + 1, above |-> FALSE]

\* `curr_rcond *= 10.` in binary64: the products of 1e-15 are
\* 1.0000000000000002e-14, ..., 1.0000000000000004e-06, each of them above
\* the power of ten it is next to
RcondTimesTen(curr_rcond) == [exponent |-> curr_rcond.exponent + 1, above |-> TRUE]

\* `if curr_rcond > 1e-6`
RcondAboveCeiling(curr_rcond) ==
    \/ curr_rcond.exponent > RcondCeilingExponent
    \/ curr_rcond.exponent = RcondCeilingExponent /\ curr_rcond.above

\* The call of the statistic of the attribute at select.attrib_index, up to
\* the entry of the retry loop; the routine is the one that the branch names.
CICall(branch, routine) ==
    /\ pc = "rank"
    /\ select.attrib_index < NumAttributes
    /\ tree_node.valid_nominal_attribute[select.attrib_index + 1]
    /\ select' = [select EXCEPT !.branch = Append(@, branch),
                                !.invoked = Append(@, routine),
                                !.curr_rcond = InitialRcond,
                                !.pinv_rcond = <<>>]
    /\ pc' = "pinv"
    /\ UNCHANGED <<nonSelectVars, result, criterion, tree_node>>

\* `if use_chi2:`, `if is_valid_attrib: curr_chi2_cdf = cls._calculate_c_quad_cdf(`
CIChi2Branch ==
    /\ pc = "rank"
    /\ select.use_chi2
    /\ CICall("use_chi2", "_calculate_c_quad_cdf")

\* `else:`, `if is_valid_attrib: curr_c_quad_cdf = cls._calculate_c_quad_cdf(`
CIExactBranch ==
    /\ pc = "rank"
    /\ ~ select.use_chi2
    /\ CICall("else", "_calculate_c_quad_cdf")

\* An attribute that is not a valid nominal attribute.
CISkipAttribute ==
    /\ pc = "rank"
    /\ select.attrib_index < NumAttributes
    /\ ~ tree_node.valid_nominal_attribute[select.attrib_index + 1]
    /\ select' = [select EXCEPT !.attrib_index = @ + 1]
    /\ UNCHANGED <<nonSelectVars, pc, result, criterion, tree_node>>

\* The return of _calculate_c_quad_cdf, where its locals end, and
\* `best_splits_per_attrib.append(Split(attrib_index, [], criterion_value))`.
\* routine is the call that returned the pseudo-inverse.
CIAppend(st, routine, criterion_value) ==
    [st EXCEPT !.attrib_index = @ + 1,
               !.pinv_routine = routine,
               !.curr_rcond = NoRcond,
               !.pinv_rcond = <<>>,
               !.best_splits_per_attrib = Append(@, Split(st.attrib_index, <<>>, criterion_value))]

\* `sigma_j_pinv = np.linalg.pinv(sigma_j)` and np.linalg.matrix_rank return:
\* no tolerance is passed, the default of np.linalg.pinv is rcond=1e-15.
\* select.pinv_rcond holds the tolerance of every round that raised.
CIPinvNumpy ==
    /\ pc = "pinv"
    /\ select' = CIAppend(select, "np.linalg.pinv", tree_node.statistic[select.attrib_index + 1])
    /\ pc' = "rank"
    /\ UNCHANGED <<nonSelectVars, result, criterion, tree_node>>

\* np.linalg.pinv raises LinAlgError and
\* `scipy.linalg.pinv(sigma_j, return_rank=True)` returns
CIPinvScipy ==
    /\ pc = "pinv"
    /\ select' = CIAppend(select, "scipy.linalg.pinv", tree_node.statistic[select.attrib_index + 1])
    /\ pc' = "rank"
    /\ UNCHANGED <<nonSelectVars, result, criterion, tree_node>>

\* Both calls raise: `curr_rcond *= 10.`, and `return float('-inf')` when
\* curr_rcond > 1e-6; otherwise the loop goes round.
CIPinvRaises ==
    /\ pc = "pinv"
    /\ LET curr_rcond == RcondTimesTen(select.curr_rcond)
       IN  IF RcondAboveCeiling(curr_rcond)
           THEN /\ select' = CIAppend(select, "none", NegInf)
                /\ pc' = "rank"
           ELSE /\ select' = [select EXCEPT !.curr_rcond = curr_rcond,
                                            !.pinv_rcond = Append(@, NumpyDefaultRcondExponent)]
                /\ pc' = "pinv"
    /\ UNCHANGED <<nonSelectVars, result, criterion, tree_node>>

\* `best_split = max(best_splits_per_attrib, key=...)`, the search of the
\* split of that attribute, and the return
CIReturnBest ==
    /\ pc = "rank"
    /\ select.attrib_index >= NumAttributes
    /\ select.best_splits_per_attrib # <<>>
    /\ LET best_split == BestSplit(criterion, select.best_splits_per_attrib)
       IN  /\ select' = [select EXCEPT !.searched = Append(@, best_split.attrib_index)]
           /\ result' = Split(best_split.attrib_index, SearchedSplitsValues, best_split.criterion_value)
    /\ pc' = "done"
    /\ UNCHANGED <<nonSelectVars, criterion, tree_node>>

\* `return Split()`
CIReturnEmpty ==
    /\ pc = "rank"
    /\ select.attrib_index >= NumAttributes
    /\ select.best_splits_per_attrib = <<>>
    /\ result' = SplitDefaults
    /\ pc' = "done"
    /\ UNCHANGED <<nonSelectVars, criterion, tree_node, select>>

InitCI ==
    /\ pc = "input"
    /\ criterion \in ConditionalInferenceCriteria
    /\ tree_node \in CITreeNodes
    /\ select = NoSelect
    /\ result = NoResult
    /\ TrickIdle
    /\ LSIdle
    /\ values_and_classes = <<>>
    /\ scan = NoScan
    /\ index = 0

NextCI ==
    \/ CIEnter
    \/ CIChi2Branch
    \/ CIExactBranch
    \/ CISkipAttribute
    \/ CIPinvNumpy
    \/ CIPinvScipy
    \/ CIPinvRaises
    \/ CIReturnBest
    \/ CIReturnEmpty

SpecCI == InitCI /\ [][NextCI]_vars

(***************************************************************************)
(* Claims.                                                                 *)
(***************************************************************************)
\* Gini impurity 1 - sum (n_c/n)^2 of the samples of the values in S.
SideCounts(table, S) == [c \in Superclasses |-> SumOver(S, [value \in DOMAIN table |-> table[value][c]])]
SideNum(table, S) == SumOver(S, ValuesNumSamples(table))
GiniOf(table, S) == RSub(RInt(1), RSumOver(Superclasses, [c \in Superclasses |-> RMul(Rat(SideCounts(table, S)[c], SideNum(table, S)), Rat(SideCounts(table, S)[c], SideNum(table, S)))]))
\* Gini gain of the bipartition (L, R) of the non-empty values, from scratch.
GainOfBipartition(table, L, R) ==
    RSub(GiniOf(table, L \cup R),
         RAdd(RMul(Rat(SideNum(table, L), SideNum(table, L \cup R)), GiniOf(table, L)),
              RMul(Rat(SideNum(table, R), SideNum(table, L \cup R)), GiniOf(table, R))))
TwoSuperclassesTwoValues(table) ==
    /\ \A c \in Superclasses : ClassIndexNumSamples(table, Superclasses)[c] > 0
    /\ Cardinality(_get_values_seen(ValuesNumSamples(table))) >= 2

\* C2: with two non-empty superclasses and at least two non-empty values, the
\* cut the two-class trick returns is a bipartition of the non-empty values whose
\* Gini gain is the gain the trick reports, and no bipartition of the non-empty
\* values has a larger Gini gain (brute force over all of them).
C2_TrickIsGloballyOptimal ==
    (pc = "done" /\ result.op = "two_class_trick" /\ TwoSuperclassesTwoValues(contingency_table)) =>
        LET seen == _get_values_seen(ValuesNumSamples(contingency_table))
        IN  /\ result.left \in Bipartitions(seen)
            /\ result.right = seen \ result.left
            /\ GainOfBipartition(contingency_table, result.left, result.right) = result.gain
            /\ \A L \in Bipartitions(seen) : RLe(GainOfBipartition(contingency_table, L, seen \ L), result.gain)

\* C2 witness: the trick has run on a table with three non-empty values where the
\* best cut is strictly better than another bipartition.
C2_Witness ==
    /\ pc = "done" /\ result.op = "two_class_trick"
    /\ TwoSuperclassesTwoValues(contingency_table)
    /\ LET seen == _get_values_seen(ValuesNumSamples(contingency_table))
       IN  /\ Cardinality(seen) = 3
           /\ \E L \in Bipartitions(seen) : RLt(GainOfBipartition(contingency_table, L, seen \ L), result.gain)

\* Both classes of the two-class data have samples.
BothClassesPresent(table) == \A c \in Superclasses : ClassIndexNumSamples(table, Superclasses)[c] > 0
SecondClassRatio(table, value) == Rat(table[value][1], RowSum(table, value))
\* The ratio of the second class does not decrease, or does not increase, along
\* the increasing order of the values with samples.
RatioMonotoneInValueOrder(table) ==
    LET seen == _get_values_seen(ValuesNumSamples(table))
    IN  \/ \A u, v \in seen : u < v => RLe(SecondClassRatio(table, u), SecondClassRatio(table, v))
        \/ \A u, v \in seen : u < v => RLe(SecondClassRatio(table, v), SecondClassRatio(table, u))

HypercubeCoverDone == pc = "done" /\ result.op = "hypercube_cover"

\* C8 as stated: on the same two-class data the numeric scan and the two-class
\* trick of HypercubeCover return the same best weighted children impurity.
C8_NumericEqualsTrick ==
    (HypercubeCoverDone /\ BothClassesPresent(contingency_table)) =>
        result.numeric.best_gini = result.nominal.gini

\* C8 amended: on the same two-class data the best weighted children impurity of
\* the two-class trick is never above that of the numeric scan, and the two are
\* equal whenever the ratio of the second class is monotone in the order of the
\* values (the scan only cuts along the order of the values, the trick along the
\* order of the ratios).
C8_TrickAtMostNumeric ==
    (HypercubeCoverDone /\ BothClassesPresent(contingency_table)) =>
        /\ RLe(result.nominal.gini, result.numeric.best_gini)
        /\ RatioMonotoneInValueOrder(contingency_table) =>
               result.numeric.best_gini = result.nominal.gini

\* C8 witness: both solvers have run on two-class data over three values whose
\* ratios are not monotone in the order of the values, and the trick found a
\* strictly smaller impurity than the scan.
C8_Witness ==
    /\ HypercubeCoverDone
    /\ BothClassesPresent(contingency_table)
    /\ Cardinality(_get_values_seen(ValuesNumSamples(contingency_table))) = 3
    /\ ~RatioMonotoneInValueOrder(contingency_table)
    /\ RLt(result.nominal.gini, result.numeric.best_gini)
    /\ RLt(result.numeric.best_gini, PosInf)

PerfectSeparationDone ==
    pc = "done" /\ result.op = "two_class_trick" /\ contingency_table = PerfectSeparationTable

\* C9 as stated: on the table [[10, 0], [0, 10]] the two-class trick returns the
\* split {0} | {1} with Gini gain 1.0.
C9_PerfectSeparationGainOne ==
    PerfectSeparationDone =>
        result.left = {0} /\ result.right = {1} /\ result.gain = RInt(1)

\* C9 amended: on the table [[10, 0], [0, 10]] the two-class trick returns the
\* split {0} | {1}; its Gini gain is 0.5, the whole Gini of the node (the
\* children are pure), which is the largest Gini a two-class node can have.
C9_PerfectSeparationGainHalf ==
    PerfectSeparationDone =>
        /\ result.left = {0} /\ result.right = {1}
        /\ result.gain = Rat(1, 2)
        /\ result.gain = result.original_gini

\* C9 witness: the trick has run on the table [[10, 0], [0, 10]].
C9_Witness == PerfectSeparationDone /\ result.gain # NegInf

\* The rows of the values with samples are proportional to one another.
ProportionalRows(table) ==
    LET seen == _get_values_seen(ValuesNumSamples(table))
    IN  \A u, v \in seen : \A c \in Superclasses :
            table[u][c] * RowSum(table, v) = table[v][c] * RowSum(table, u)

BestCutBetweenUnequalValues ==
    scan.best_index # None =>
        LET last_left == scan.best_index
            first_right == scan.best_index + 1
        IN  /\ values_and_classes[last_left][1] # values_and_classes[first_right][1]
            /\ scan.best_last_left_value = values_and_classes[last_left][1]
            /\ scan.best_first_right_value = values_and_classes[first_right][1]
            /\ \A l \in 1 .. last_left : \A r \in first_right .. Len(values_and_classes) :
                   values_and_classes[l][1] # values_and_classes[r][1]

\* C6: in the numeric scans of Twoing, LSSquaredGini, PCExt, HypercubeCover,
\* LargestClassAlone and SliqExt, at the head of every iteration last_left_value
\* is the value of the last sample on the left (so the test "first_right_value !=
\* last_left_value" lets a cut be evaluated only between unequal neighbours);
\* the best cut always lies between unequal neighbours whose values are the
\* ones kept and returned, and no value occurs on both of its sides.
C6_NumericScansNeverSplitTies ==
    criterion \in NumericCriteria =>
        /\ pc = "loop" => scan.last_left_value = values_and_classes[index][1]
        /\ pc \in {"loop", "done"} => BestCutBetweenUnequalValues
        /\ pc = "done" =>
               /\ result.last_left_value = scan.best_last_left_value
               /\ result.first_right_value = scan.best_first_right_value
               /\ (scan.best_index = None) =
                      (\A k \in 1 .. (Len(values_and_classes) - 1) :
                           values_and_classes[k][1] = values_and_classes[k + 1][1])

\* C6 witness: a scan has returned a cut on a list with three distinct values
\* and two equal neighbours.
C6_Witness ==
    /\ criterion \in NumericCriteria
    /\ pc = "done"
    /\ scan.best_index # None
    /\ Cardinality({values_and_classes[k][1] : k \in 1 .. Len(values_and_classes)}) = 3
    /\ \E k \in 1 .. (Len(values_and_classes) - 1) :
           values_and_classes[k][1] = values_and_classes[k + 1][1]

CurrentCutWeight == CutWeight(weights, ls.set_left_values, ls.set_right_values)

NextCutWeight == CutWeight(weights', ls'.set_left_values, ls'.set_right_values)

\* C3: every single switch and every pair swap that _switch_while_increase
\* applies leaves a partition whose cut weight, and whose curr_cut_val, is at
\* least what it was before the move; curr_cut_val stays the cut weight of the
\* partition (weights of the program's tables, any starting partition).
C3_CutValueNeverDecreases ==
    [][(pc \in {"single", "double"} /\ ls' # ls)
          => /\ RLe(ls.curr_cut_val, ls'.curr_cut_val)
             /\ RLe(CurrentCutWeight, NextCutWeight)
             /\ ls'.curr_cut_val = NextCutWeight]_vars

C3_Witness ==
    /\ pc = "while"
    /\ run = 1
    /\ ls.swapped
    /\ RLt(RInt(0), ls.curr_cut_val)

\* C4: _switch_while_increase terminates from every starting partition: a run
\* that is at the test of its while loop reaches its return statement.
C4_SwitchWhileIncreaseTerminates ==
    (pc = "while") ~> (pc \in {"returned", "done"})

C4_Witness ==
    /\ pc = "returned"
    /\ ls.moved
    /\ first_run.curr_cut_val = ls.curr_cut_val

\* C5: the run of _switch_while_increase on what the first run returned
\* applies no move and returns the same cut value and the same two sets.
C5_RerunIsNoOp ==
    /\ run = 2 =>
          /\ ~ ls.moved
          /\ ~ ls.swapped
          /\ ls.curr_cut_val = first_run.curr_cut_val
          /\ ls.set_left_values = first_run.set_left_values
          /\ ls.set_right_values = first_run.set_right_values
    /\ pc = "done" => result = first_run

C5_Witness ==
    /\ pc = "done"
    /\ run = 2
    /\ result = first_run
    /\ Cardinality(DOMAIN weights) >= 3
    /\ result.set_left_values # {}
    /\ result.set_right_values # {}

NoAttributeValid ==
    \A i \in 1 .. NumAttributes :
        /\ ~ tree_node.valid_nominal_attribute[i]
        /\ ~ tree_node.valid_numeric_attribute[i]

\* C1: in every criterion class, on a node none of whose attributes is
\* flagged valid, select_best_attribute_and_split reaches its return with an
\* empty best_splits_per_attrib (max and min are not called on it, nothing
\* raises) and returns the sentinel (None, [], -infinity).
C1_NoValidAttributeReturnsEmptySplit ==
    (tree_node # NoNode /\ NoAttributeValid) =>
        /\ pc = "loop" => select.best_splits_per_attrib = <<>>
        /\ pc = "done" =>
              /\ result.attrib_index = None
              /\ result.splits_values = <<>>
              /\ result.criterion_value = NegInf

C1_Witness ==
    /\ pc = "done"
    /\ NumAttributes = SelectMaxAttributes
    /\ NoAttributeValid
    /\ result.attrib_index = None

NumNonEmptyValues(table) == Cardinality(_get_values_seen(ValuesNumSamples(table)))

\* C11: _group_values is idempotent: applied to the table it returned it
\* merges nothing (every group is one row, in the same order, and the table
\* is returned unchanged), and the number of groups is at most the number of
\* non-empty values of the input table.
C11_GroupValuesIdempotent ==
    /\ pc \in {"grouped", "done"} =>
          Len(result.grouped.new_index_to_old) <= NumNonEmptyValues(contingency_table)
    /\ pc = "done" =>
          /\ result.regrouped.new_contingency_table = result.grouped.new_contingency_table
          /\ result.regrouped.new_num_samples_per_value = result.grouped.new_num_samples_per_value
          /\ result.regrouped.new_index_to_old =
                 [k \in DOMAIN result.grouped.new_index_to_old |-> <<k - 1>>]

AttributeFlaggedValid(i) ==
    tree_node.valid_nominal_attribute[i] \/ tree_node.valid_numeric_attribute[i]

\* Some attribute is flagged valid, and every attribute flagged valid is a
\* numeric one whose scan finds no cut between unequal values.
ValidAttributesWithoutCandidateSplit ==
    /\ tree_node # NoNode
    /\ \E i \in 1 .. NumAttributes : AttributeFlaggedValid(i)
    /\ \A i \in 1 .. NumAttributes :
          AttributeFlaggedValid(i) =>
              /\ tree_node.valid_numeric_attribute[i]
              /\ tree_node.criterion_value[i].den = 0

\* C12: when attributes are flagged valid but none of them has a candidate
\* split, select_best_attribute_and_split returns the sentinel Split, whose
\* attrib_index is None, and not a Split that names one of the attributes.
C12_NoCandidateSplitReturnsEmptySplit ==
    (pc = "done" /\ ValidAttributesWithoutCandidateSplit) => result.attrib_index = None

\* The cut positions between unequal consecutive values: the cut at k has the
\* samples 1 .. k on the left.
AdmissibleCuts(samples) ==
    {k \in 1 .. (Len(samples) - 1) : samples[k][1] # samples[k + 1][1]}

\* The class counts of the samples lo .. hi, counted from scratch.
CountedClasses(samples, lo, hi, num_classes) ==
    [c \in 0 .. (num_classes - 1) |-> Cardinality({j \in lo .. hi : samples[j][2] = c})]

\* The criterion value of the cut at k, from counts taken from scratch.
CutValueFromScratch(name, samples, k, num_classes) ==
    LET num_left == k
        num_right == Len(samples) - k
        left == CountedClasses(samples, 1, k, num_classes)
        right == CountedClasses(samples, k + 1, Len(samples), num_classes)
    IN  CASE name = "Twoing" -> _get_twoing_value(left, right, num_left, num_right)
          [] name \in {"PCExt", "SliqExt"} -> _get_gini_value(left, right, num_left, num_right)
          [] name \in {"HypercubeCover", "LargestClassAlone"} ->
                 _calculate_children_gini_index(num_left, left, num_right, right)
          [] name = "LSSquaredGini" ->
                 RInt(SumOver(DOMAIN left, [c \in DOMAIN left |-> left[c] * (num_right - right[c])]))

LargestIsBest(name) == name \in {"Twoing", "LSSquaredGini"}

\* The cut at k is at least as good as the cut at j.
CutNotWorse(name, samples, k, j, num_classes) ==
    IF LargestIsBest(name)
    THEN RLe(CutValueFromScratch(name, samples, j, num_classes),
             CutValueFromScratch(name, samples, k, num_classes))
    ELSE RLe(CutValueFromScratch(name, samples, k, num_classes),
             CutValueFromScratch(name, samples, j, num_classes))

\* The first of the admissible cuts whose value from scratch is the best.
FirstBestCut(name, samples, num_classes) ==
    CHOOSE k \in AdmissibleCuts(samples) :
        /\ \A j \in AdmissibleCuts(samples) : CutNotWorse(name, samples, k, j, num_classes)
        /\ \A j \in AdmissibleCuts(samples) :
              j < k => ~ CutNotWorse(name, samples, j, k, num_classes)

\* C13: a numeric scan that has an admissible cut returns the best criterion
\* value over the cuts between unequal consecutive values, each recomputed
\* from scratch (largest for Twoing and LSSquaredGini, smallest for the Gini
\* scans), with the value of the last left sample and of the first right
\* sample of the first cut that attains it.
C13_NumericScanReturnsBestCut ==
    (pc = "done" /\ AdmissibleCuts(values_and_classes) # {}) =>
        LET k == FirstBestCut(criterion, values_and_classes, NumClassesOfScan)
        IN  /\ result.best = CutValueFromScratch(criterion, values_and_classes, k, NumClassesOfScan)
            /\ result.last_left_value = values_and_classes[k][1]
            /\ result.first_right_value = values_and_classes[k + 1][1]

C13_Witness ==
    /\ pc = "done"
    /\ criterion = "Twoing"
    /\ Cardinality(AdmissibleCuts(values_and_classes)) >= 2
    /\ \E k \in AdmissibleCuts(values_and_classes) :
          /\ k > 1
          /\ result.last_left_value = values_and_classes[k][1]
          /\ \E j \in AdmissibleCuts(values_and_classes) :
                j < k /\ ~ CutNotWorse(criterion, values_and_classes, j, k, NumClassesOfScan)

\* The partition after value has changed sides.
SingleMoved(set_left_values, set_right_values, value) ==
    IF value \in set_left_values
    THEN <<set_left_values \ {value}, set_right_values \cup {value}>>
    ELSE <<set_left_values \cup {value}, set_right_values \ {value}>>

\* No value can change sides, and no value of the left can be exchanged with
\* a value of the right, with a cut weight, summed from scratch, that is
\* larger by EPSILON or more.
IsLocalOptimum(weights_, set_left_values, set_right_values) ==
    LET cut == CutWeight(weights_, set_left_values, set_right_values)
    IN  /\ \A value \in set_left_values \cup set_right_values :
              LET moved == SingleMoved(set_left_values, set_right_values, value)
              IN  ~ IsImprovement(CutWeight(weights_, moved[1], moved[2]), cut)
        /\ \A value1 \in set_left_values, value2 \in set_right_values :
              ~ IsImprovement(CutWeight(weights_, (set_left_values \ {value1}) \cup {value2},
                                        (set_right_values \ {value2}) \cup {value1}), cut)

\* C14: the partition that _generate_best_split of a GW criterion returns,
\* whatever the rounded partition was, admits no single switch and no pair
\* swap that increases the cut value by EPSILON or more.
C14_GWReturnsLocalOptimum ==
    (pc = "done" /\ criterion \in GWCriteria) =>
        IsLocalOptimum(weights, result.left_new_values, result.right_new_values)

\* C15: _switch_while_increase returns a local optimum: no value of the
\* returned partition can change sides, and no two values on different sides
\* can be exchanged, with a cut value larger by EPSILON (1e-6) or more.
C15_SwitchWhileIncreaseReturnsLocalOptimum ==
    /\ pc \in {"returned", "done"} =>
          IsLocalOptimum(weights, first_run.set_left_values, first_run.set_right_values)
    /\ pc = "done" =>
          IsLocalOptimum(weights, result.set_left_values, result.set_right_values)

C15_Witness ==
    /\ pc = "returned"
    /\ ls.swapped
    /\ first_run.set_left_values # {}
    /\ first_run.set_right_values # {}
    /\ first_run.curr_cut_val = CutWeight(weights, first_run.set_left_values, first_run.set_right_values)

\* The valid nominal attributes of the node, as the 0-based attrib_index.
ValidNominalAttributes ==
    {i \in 0 .. (NumAttributes - 1) : tree_node.valid_nominal_attribute[i + 1]}

\* (number of non-empty values) x (number of non-empty classes) of attribute
\* i is above 200.
TableIsOversized(i) ==
    Cardinality({value \in DOMAIN tree_node.values_num_samples[i + 1] :
                    tree_node.values_num_samples[i + 1][value] > 0})
        * Cardinality({class_index \in DOMAIN tree_node.class_index_num_samples :
                          tree_node.class_index_num_samples[class_index] > 0}) > 200

\* C16: in the conditional inference criteria the test is chosen once per
\* node: the chi-square test is chosen exactly when some valid nominal
\* attribute has (non-empty values) x (non-empty classes) > 200, the choice
\* does not change during the pass, and every valid nominal attribute is
\* ranked in the branch of that choice.
C16_TestChosenOncePerNode ==
    pc # "input" =>
        /\ select.use_chi2 <=> \E i \in ValidNominalAttributes : TableIsOversized(i)
        /\ \A k \in DOMAIN select.branch :
              select.branch[k] = IF \E i \in ValidNominalAttributes : TableIsOversized(i)
                                 THEN "use_chi2" ELSE "else"
        /\ pc = "done" => Len(select.branch) = Cardinality(ValidNominalAttributes)

C16_Witness ==
    /\ pc = "done"
    /\ select.use_chi2
    /\ Len(select.branch) = 2
    /\ \E i \in ValidNominalAttributes : ~ TableIsOversized(i)

\* C17: when the chi-square test is chosen, the score of every attribute is
\* computed by _get_chi_square_test_p_value.
C17_Chi2ModeInvokesPearsonRoutine ==
    (pc # "input" /\ select.use_chi2) =>
        \A k \in DOMAIN select.invoked : select.invoked[k] = "_get_chi_square_test_p_value"

\* The statistic that the pass appended for attribute i.
StatisticOf(i) ==
    (CHOOSE split \in Range(select.best_splits_per_attrib) : split.attrib_index = i).criterion_value

\* C18: a conditional inference criterion returns a valid nominal attribute
\* whose statistic is the largest of the valid nominal attributes, the one of
\* lowest index among ties; the split is searched on that attribute only, and
\* the criterion_value returned is the statistic of the attribute.
C18_BestStatisticAttributeIsReturned ==
    (pc = "done" /\ ValidNominalAttributes # {}) =>
        /\ result.attrib_index \in ValidNominalAttributes
        /\ \A i \in ValidNominalAttributes :
              /\ ~ RLt(StatisticOf(result.attrib_index), StatisticOf(i))
              /\ i < result.attrib_index => RLt(StatisticOf(i), StatisticOf(result.attrib_index))
        /\ select.searched = <<result.attrib_index>>
        /\ result.splits_values = SearchedSplitsValues
        /\ result.criterion_value = StatisticOf(result.attrib_index)
        /\ result.criterion_value \in {tree_node.statistic[result.attrib_index + 1], NegInf}

C18_Witness ==
    /\ pc = "done"
    /\ Cardinality(ValidNominalAttributes) = 2
    /\ StatisticOf(0) = StatisticOf(1)
    /\ StatisticOf(0) = Rat(1, 2)
    /\ result.attrib_index = 0
    /\ select.searched = <<0>>

\* C19: in the retry loop of _calculate_c_quad_cdf the tolerance passed to
\* the pseudo-inverse is strictly larger at every retry than at the attempt
\* before it.
C19_RetryPassesLargerTolerance ==
    pc # "input" =>
        \A k \in 1 .. (Len(select.pinv_rcond) - 1) :
            select.pinv_rcond[k + 1] > select.pinv_rcond[k]

\* C20: the retry loop of _calculate_c_quad_cdf ends within MaxPinvRounds
\* rounds (a round is entered after fewer than MaxPinvRounds have raised); an attribute all of whose attempts raised is given -infinity, the
\* pass goes on to rank every valid nominal attribute, and the attribute is
\* returned only when no attribute has a finite statistic.
C20_ExhaustedRetriesRankLast ==
    pc # "input" =>
        /\ Len(select.pinv_rcond) < MaxPinvRounds
        /\ \A k \in DOMAIN select.best_splits_per_attrib :
              select.best_splits_per_attrib[k].criterion_value
                  \in {tree_node.statistic[select.best_splits_per_attrib[k].attrib_index + 1], NegInf}
        /\ pc = "done" =>
              /\ {split.attrib_index : split \in Range(select.best_splits_per_attrib)} = ValidNominalAttributes
              /\ (ValidNominalAttributes # {} /\ StatisticOf(result.attrib_index) = NegInf) =>
                     \A i \in ValidNominalAttributes : StatisticOf(i) = NegInf

C20_Witness ==
    /\ pc = "done"
    /\ Cardinality(ValidNominalAttributes) = 2
    /\ StatisticOf(0) = NegInf
    /\ StatisticOf(1) # NegInf
    /\ result.attrib_index = 1
    /\ result.criterion_value = tree_node.statistic[2]

\* C21: the weights that LSSquaredGini's _init_values_weights builds over the
\* non-empty values are symmetric, non-negative, and zero on the diagonal.
C21_SquaredGiniWeightsSymmetricNonNegative ==
    criterion = "LSSquaredGini" =>
        \A value_index_i, value_index_j \in DOMAIN weights :
            /\ weights[value_index_i][value_index_j] = weights[value_index_j][value_index_i]
            /\ RLe(RInt(0), weights[value_index_i][value_index_j])
            /\ value_index_i = value_index_j => weights[value_index_i][value_index_j] = RInt(0)

C21_Witness ==
    /\ criterion = "LSSquaredGini"
    /\ pc = "input"
    /\ Cardinality(DOMAIN weights) >= 3
    /\ \E value_index_i, value_index_j, value_index_k \in DOMAIN weights :
          /\ RLt(RInt(0), weights[value_index_i][value_index_j])
          /\ RLt(weights[value_index_i][value_index_j], weights[value_index_i][value_index_k])

\* The values of the table that have a sample.
ValuesWithSamples ==
    {value \in DOMAIN contingency_table : ValuesNumSamples(contingency_table)[value] > 0}

\* C22: in the LS criteria row k of the table without its empty values is
\* the row new_to_orig_value_int[k] of the table, the mapping is increasing
\* (so injective) onto the values that have a sample, and
\* _generate_best_split returns two disjoint sets of original values whose
\* union is the set of the values that have a sample.
C22_SplitIsReturnedInOriginalValues ==
    pc # "table" =>
        LET values_num_samples == ValuesNumSamples(contingency_table)
            new == _remove_empty_values(contingency_table, values_num_samples)
            new_to_orig_value_int == new.new_to_orig_value_int
        IN  /\ \A k \in DOMAIN new_to_orig_value_int :
                  /\ new.new_contingency_table[k] = contingency_table[new_to_orig_value_int[k]]
                  /\ new.new_value_num_seen[k] = values_num_samples[new_to_orig_value_int[k]]
            /\ \A k, l \in DOMAIN new_to_orig_value_int :
                  k < l => new_to_orig_value_int[k] < new_to_orig_value_int[l]
            /\ {new_to_orig_value_int[k] : k \in DOMAIN new_to_orig_value_int} = ValuesWithSamples
            /\ DOMAIN weights = DOMAIN new_to_orig_value_int
            /\ result.op = "_generate_best_split" =>
                  /\ result.left_orig_values \cap result.right_orig_values = {}
                  /\ result.left_orig_values \cup result.right_orig_values = ValuesWithSamples

C22_Witness ==
    /\ result.op = "_generate_best_split"
    /\ 0 \notin ValuesWithSamples
    /\ Cardinality(ValuesWithSamples) >= 3
    /\ Cardinality(result.left_orig_values) >= 2
    /\ result.right_orig_values # {}

\* C25: the cut value that the LS search tracks is the weight of the cut of
\* its partition: what _generate_initial_partition returns, and curr_cut_val
\* after every single switch and pair swap, is the sum of w[l][r] over the
\* values l of the left set and r of the right set.
C25_TrackedCutValueIsCutWeight ==
    /\ LET part == _generate_initial_partition(Cardinality(DOMAIN weights), weights)
       IN  part.cut_val = CutWeight(weights, part.set_left_values, part.set_right_values)
    /\ ls # NoSearch =>
          ls.curr_cut_val = CutWeight(weights, ls.set_left_values, ls.set_right_values)
    /\ first_run # NoResult =>
          first_run.curr_cut_val = CutWeight(weights, first_run.set_left_values, first_run.set_right_values)

C25_Witness ==
    /\ run = 1
    /\ ls.moved
    /\ Cardinality(ls.set_left_values) >= 2
    /\ Cardinality(ls.set_right_values) >= 2
    /\ LET part == _generate_initial_partition(Cardinality(DOMAIN weights), weights)
       IN  /\ Cardinality(part.set_left_values) >= 2
           /\ RLt(RInt(0), part.cut_val)

\* C26: in the LS criteria, on an attribute with two or more non-empty
\* values, the greedy partition has the first value on the left and the
\* second on the right, no move of the local search empties a side, and both
\* sides of the split that _generate_best_split returns are non-empty.
C26_BothSidesOfSplitNonEmpty ==
    (pc # "table" /\ Cardinality(ValuesWithSamples) >= 2) =>
        /\ 0 \in first_run.set_left_values
        /\ 1 \in first_run.set_right_values
        /\ ls.set_left_values # {}
        /\ ls.set_right_values # {}
        /\ result.op = "_generate_best_split" =>
              /\ result.left_orig_values # {}
              /\ result.right_orig_values # {}

C26_Witness ==
    /\ result.op = "_generate_best_split"
    /\ ls.swapped
    /\ Cardinality(result.left_orig_values) = 2
    /\ Cardinality(result.right_orig_values) = 2
    /\ RLt(first_run.curr_cut_val, result.cut_val)

\* The classes of the node that have a sample.
NonEmptyClasses ==
    {class_index \in DOMAIN tree_node.class_index_num_samples :
        tree_node.class_index_num_samples[class_index] > 0}

\* C23: with two or more non-empty classes, every pair that _generate_twoing
\* yields has two non-empty, disjoint sides whose union is the set of the
\* non-empty classes, and when the generator is exhausted every partition of
\* the non-empty classes into two non-empty sets has been yielded, as
\* (left, right) or as (right, left).
C23_GenerateTwoingEnumeratesBipartitions ==
    (pc # "input" /\ Cardinality(NonEmptyClasses) >= 2) =>
        /\ \A k \in DOMAIN result.yielded :
              /\ result.yielded[k][1] # {}
              /\ result.yielded[k][2] # {}
              /\ result.yielded[k][1] \cap result.yielded[k][2] = {}
              /\ result.yielded[k][1] \cup result.yielded[k][2] = NonEmptyClasses
        /\ pc = "done" =>
              \A L \in Bipartitions(NonEmptyClasses) :
                  \E k \in DOMAIN result.yielded :
                      result.yielded[k] \in {<<L, NonEmptyClasses \ L>>, <<NonEmptyClasses \ L, L>>}

C23_Witness ==
    /\ pc = "done"
    /\ Cardinality(NonEmptyClasses) = 4
    /\ Len(result.yielded) = 10
    /\ \E k \in DOMAIN result.yielded : result.yielded[k] = <<{1, 2}, {0, 3}>>

\* C24: in the PCExt scan every candidate handed to the impurity computation
\* has a non-empty left set and a non-empty right set, and so has the split
\* that is returned for the attribute.
C24_ScoredCandidatesHaveNoEmptySide ==
    pc \in {"for", "done"} /\ "scored" \in DOMAIN scan =>
        /\ \A k \in DOMAIN scan.scored : scan.scored[k][1] # {} /\ scan.scored[k][2] # {}
        /\ result.op = "select_best_attribute_and_split" =>
               result.splits_values[1] # {} /\ result.splits_values[2] # {}

\* The number of pairs of a sample among the first num_left and a sample
\* after them whose classes differ.
PairsOfDifferentClasses(samples, num_left) ==
    Cardinality({pair \in (1 .. num_left) \X ((num_left + 1) .. Len(samples)) :
                    samples[pair[1]][2] # samples[pair[2]][2]})

\* C27: at the start of every iteration of the loop of
\* LSSquaredGini._best_cut_for_numeric the two sides hold all the samples,
\* the two counts of every class add up to the total of the class, and
\* curr_cut_value is the number of pairs of a left and a right sample of
\* different classes for the cut that puts the samples before the current
\* position on the left.
C27_NumericScanCountsAndCutValue ==
    (pc = "loop" /\ criterion = "LSSquaredGini" /\ index < Len(values_and_classes)) =>
        /\ scan.num_left_samples = index
        /\ scan.num_left_samples + scan.num_right_samples = Len(values_and_classes)
        /\ \A c \in 0 .. (NumClassesOfScan - 1) :
              scan.class_num_left[c] + scan.class_num_right[c] = ClassCount(values_and_classes, 1, c)
        /\ scan.curr_cut_value = PairsOfDifferentClasses(values_and_classes, index)

C27_Witness ==
    /\ pc = "loop"
    /\ criterion = "LSSquaredGini"
    /\ index >= 2
    /\ index < Len(values_and_classes)
    /\ scan.curr_cut_value > 0
    /\ \E c \in 0 .. (NumClassesOfScan - 1) : scan.class_num_left[c] > 0 /\ scan.class_num_right[c] > 0

\* C28: SliqExt._get_best_attribute_split returns for every set of seen
\* values, and when at least two values are seen the left and the right set
\* it returns are disjoint, both non-empty, and their union is values_seen.
C28_BestAttributeSplitReturnsBipartition ==
    /\ <>(pc = "done")
    /\ [](pc = "done" =>
             LET values_seen == _get_values_seen(ValuesNumSamples(contingency_table))
             IN  Cardinality(values_seen) >= 2 =>
                     /\ result.best_left_values \cap result.best_right_values = {}
                     /\ result.best_left_values # {}
                     /\ result.best_right_values # {}
                     /\ result.best_left_values \cup result.best_right_values = values_seen)

\* C29: the left and the right set that _two_class_trick returns for a
\* nominal attribute hold only values that have a sample at the node,
\* whatever the classes of the node.
C29_TrickReturnsSeenValuesOnly ==
    pc = "done" =>
        (result.splits_values[1] \cup result.splits_values[2])
            \subseteq _get_values_seen(ValuesNumSamples(contingency_table))

\* The attributes of the node that are flagged valid numeric and not valid
\* nominal (Python indices).
ValidNumericOnlyAttributes ==
    {i \in 0 .. (NumAttributes - 1) :
        tree_node.valid_numeric_attribute[i + 1] /\ ~ tree_node.valid_nominal_attribute[i + 1]}

\* C30: the GW and the conditional inference classes never return a Split of
\* an attribute that is not flagged valid nominal, and return Split() for a
\* node whose valid attributes are all numeric; Twoing, the LS classes, PCExt,
\* HypercubeCover, LargestClassAlone and SliqExt append the split of the
\* numeric scan for every such attribute.
C30_NumericAttributesReadByScanClassesOnly ==
    pc = "done" =>
        /\ criterion \in NominalOnlyCriteria \cup ConditionalInferenceCriteria =>
              /\ result.attrib_index \notin ValidNumericOnlyAttributes
              /\ result.attrib_index # None => tree_node.valid_nominal_attribute[result.attrib_index + 1]
              /\ (\A i \in 1 .. NumAttributes : ~ tree_node.valid_nominal_attribute[i]) =>
                     result = SplitDefaults
        /\ criterion \in NominalNumericMaxCriteria \cup NominalNumericMinCriteria =>
              \A i \in ValidNumericOnlyAttributes :
                  \E k \in DOMAIN select.best_splits_per_attrib :
                      select.best_splits_per_attrib[k] =
                          Split(i, NumericSplitsValues(tree_node.criterion_value[i + 1]),
                                tree_node.criterion_value[i + 1])

C30_Witness ==
    /\ pc = "done"
    /\ criterion \in NominalOnlyCriteria \cup ConditionalInferenceCriteria
    /\ 0 \in ValidNumericOnlyAttributes
    /\ result.attrib_index = 1
====
